---------------------------- MODULE Spec2Model ----------------------------
(***************************************************************************)
(* Model of the machine-bound configuration cipher, the server-keyed       *)
(* database cipher and the encrypted settings store of promo-pos.          *)
(*                                                                         *)
(* Go strings and byte slices are sequences of bytes (0..255).  An error   *)
(* is the chain of its messages, outermost first (fmt.Errorf with %w       *)
(* prepends one message); the nil error is the empty chain.                *)
(*                                                                         *)
(* The cryptographic primitives are idealised, as usual: the key           *)
(* derivation and the authentication tag are functions that do not         *)
(* collide on the inputs of the model, and the cipher is a stream cipher   *)
(* (XOR with a keystream), which is the shape of both AES-GCM and          *)
(* ChaCha20-Poly1305.  Everything around them (nonce handling, envelope    *)
(* layout, base64 transport, length checks) is modelled as coded.          *)
(***************************************************************************)
EXTENDS Integers, Sequences, FiniteSets, TLC

VARIABLES
    \* ---- cipher bench (internal/security/encryption.go) ----
    ce,       \* config cipher instances, one option per slot
    de,       \* database cipher instances, one option per slot
    env,      \* option: the last envelope sealed, with who sealed what
    cres,     \* the last result of a cipher operation
    \* ---- settings store (internal/database/sqlite.go) ----
    db,       \* option: the DB, with its DatabaseEncryption
    table,    \* committed rows of the settings table
    tx,       \* the open SQL transaction, if any
    mu,       \* DB.mu, the store's sync.RWMutex
    pc,       \* per goroutine: the store call it is in
    ret,      \* what the store call that finished last returned
    plain,    \* the plain map the store is meant to implement
    now,      \* the database clock, in seconds
    cachedMachineID, \* the process-wide cache slot of GetMachineID
    machineIDMutex,  \* the sync.RWMutex that guards it
    registry,        \* the persisted machine ID (a file, on Linux)
    host,            \* the signals of the host the process runs on
    idpc,     \* per goroutine: where it is inside GetMachineID
    idret,    \* what the GetMachineID call that finished last returned
    idlog,    \* what this process derived, saved, cached and returned so far
    dataDir,  \* the store's data directory: is it there, and the database file in it
    \* ---- config Manager (package config) ----
    mgr,      \* option: the config Manager
    cfgs,     \* the Config values the process has made, by address (1, 2, ...)
    mmu,      \* Manager.mu, the Manager's sync.RWMutex
    cfgFile,  \* the config directory: is it there, the config file, the temp file
    cpc,      \* per goroutine: the Manager call it is in
    cret,     \* what the Manager call that finished last returned
    \* ---- the cipher bench, when the envelope passes through foreign hands ----
    forged,   \* what was done to the envelope after it was sealed, if anything
    \* ---- byte slices that are shared by reference ----
    keyBuf,   \* the backing arrays of the callers' key slices, by address (1, 2, ...)
    deRef,    \* DatabaseEncryption instances whose serverKey is the address of a slice
    \* ---- the service Program (package service) ----
    prog,     \* option: the Program, with its context and what ran so far
    \* ---- the HTTP server (package server) and the Application (package main) ----
    srv,      \* option: the Server, its listener, its connections, who waits on it
    app,      \* the run of the application: what NewApplication built, and the steps of its callbacks
    resp      \* the HTTP response written last

cipherVars == <<ce, de, env, cres>>
storeVars == <<db, table, tx, mu, pc, ret, plain, now>>
idVars == <<cachedMachineID, machineIDMutex, registry, host, idpc, idret, idlog>>
cfgVars == <<mgr, cfgs, mmu, cfgFile, cpc, cret>>
\* the parts that the cipher bench, the store and GetMachineID leave alone
lateVars == <<keyBuf, deRef, prog>>
srvVars == <<srv, app, resp>>
restVars == <<cfgVars, forged, lateVars, srvVars>>
appVars == <<dataDir, restVars>>
vars == <<ce, de, env, cres, db, table, tx, mu, pc, ret, plain, now,
          cachedMachineID, machineIDMutex, registry, host, idpc, idret, idlog,
          dataDir, mgr, cfgs, mmu, cfgFile, cpc, cret, forged,
          keyBuf, deRef, prog, srv, app, resp>>

----------------------------------------------------------------------------
(* Options and errors *)

None == <<>>
Some(x) == <<x>>
IsSome(o) == Len(o) = 1
Val(o) == o[1]

Nil == <<>>
Err(msg) == <<msg>>
\* fmt.Errorf("msg: %w", err)
Wrap(msg, err) == <<msg>> \o err
\* errors.Is(err, target) for error values without an Is method
ErrorsIs(err, target) ==
    \E i \in 1..Len(err) : SubSeq(err, i, Len(err)) = target

ErrInvalidCiphertext == Err("invalid ciphertext")
ErrInvalidKey == Err("invalid encryption key")

----------------------------------------------------------------------------
(* Constants of internal/security/encryption.go *)

pbkdf2Iterations == 10000
aes256KeySize == 32
chacha20KeySize == 32
\* gcm.NonceSize() and aead.NonceSize(): both AEADs use the standard nonce
NonceSize == 12
\* the tag both AEADs append to the ciphertext
TagSize == 16

\* "YourSuperSecretHardcodedKeyHere-ChangeInProduction!"
hardcodedEncryptionKey ==
    << 89, 111, 117, 114, 83, 117, 112, 101, 114, 83, 101, 99, 114, 101,
       116, 72, 97, 114, 100, 99, 111, 100, 101, 100, 75, 101, 121, 72,
       101, 114, 101, 45, 67, 104, 97, 110, 103, 101, 73, 110, 80, 114,
       111, 100, 117, 99, 116, 105, 111, 110, 33 >>

AesGcm == "aes-256-gcm"
ChaCha20Poly1305 == "chacha20-poly1305"

\* the AEAD ConfigEncryption builds: aes.NewCipher + cipher.NewGCM
ConfigAead == AesGcm

DatabaseAead_AesGcm == AesGcm
\* the AEAD DatabaseEncryption builds: chacha20poly1305.New
DatabaseAead == ChaCha20Poly1305

----------------------------------------------------------------------------
(* encoding/base64, StdEncoding *)

B64Pad == 61

B64Char(v) ==
    IF v < 26 THEN 65 + v
    ELSE IF v < 52 THEN 97 + (v - 26)
    ELSE IF v < 62 THEN 48 + (v - 52)
    ELSE IF v = 62 THEN 43
    ELSE 47

\* -1 for a byte outside the alphabet
B64Val(c) ==
    IF c >= 65 /\ c <= 90 THEN c - 65
    ELSE IF c >= 97 /\ c <= 122 THEN c - 97 + 26
    ELSE IF c >= 48 /\ c <= 57 THEN c - 48 + 52
    ELSE IF c = 43 THEN 62
    ELSE IF c = 47 THEN 63
    ELSE -1

RECURSIVE B64Encode(_)
B64Encode(b) ==
    IF Len(b) = 0 THEN <<>>
    ELSE IF Len(b) = 1 THEN
        << B64Char(b[1] \div 4), B64Char((b[1] % 4) * 16), B64Pad, B64Pad >>
    ELSE IF Len(b) = 2 THEN
        << B64Char(b[1] \div 4),
           B64Char((b[1] % 4) * 16 + (b[2] \div 16)),
           B64Char((b[2] % 16) * 4),
           B64Pad >>
    ELSE
        << B64Char(b[1] \div 4),
           B64Char((b[1] % 4) * 16 + (b[2] \div 16)),
           B64Char((b[2] % 16) * 4 + (b[3] \div 64)),
           B64Char(b[3] % 64) >>
        \o B64Encode(SubSeq(b, 4, Len(b)))

\* the decoder skips carriage returns and line feeds
RECURSIVE B64Strip(_)
B64Strip(s) ==
    IF Len(s) = 0 THEN <<>>
    ELSE IF s[1] = 10 \/ s[1] = 13 THEN B64Strip(Tail(s))
    ELSE <<s[1]>> \o B64Strip(Tail(s))

\* one quantum of four characters; padding is legal only in the last one
B64Quantum(q, last) ==
    LET v1 == B64Val(q[1])
        v2 == B64Val(q[2])
        v3 == B64Val(q[3])
        v4 == B64Val(q[4])
    IN  IF v1 < 0 \/ v2 < 0 THEN [ok |-> FALSE, bytes |-> <<>>]
        ELSE IF last /\ q[3] = B64Pad /\ q[4] = B64Pad THEN
            [ok |-> TRUE, bytes |-> << v1 * 4 + (v2 \div 16) >>]
        ELSE IF v3 < 0 THEN [ok |-> FALSE, bytes |-> <<>>]
        ELSE IF last /\ q[4] = B64Pad THEN
            [ok |-> TRUE,
             bytes |-> << v1 * 4 + (v2 \div 16),
                          (v2 % 16) * 16 + (v3 \div 4) >>]
        ELSE IF v4 < 0 THEN [ok |-> FALSE, bytes |-> <<>>]
        ELSE [ok |-> TRUE,
              bytes |-> << v1 * 4 + (v2 \div 16),
                           (v2 % 16) * 16 + (v3 \div 4),
                           (v3 % 4) * 64 + v4 >>]

RECURSIVE B64DecodeQuanta(_)
B64DecodeQuanta(s) ==
    IF Len(s) = 0 THEN [ok |-> TRUE, bytes |-> <<>>]
    ELSE IF Len(s) < 4 THEN [ok |-> FALSE, bytes |-> <<>>]
    ELSE
        LET q == B64Quantum(SubSeq(s, 1, 4), Len(s) = 4)
        IN  IF ~q.ok THEN q
            ELSE LET rest == B64DecodeQuanta(SubSeq(s, 5, Len(s)))
                 IN  [ok |-> rest.ok,
                      bytes |-> IF rest.ok THEN q.bytes \o rest.bytes ELSE <<>>]

\* base64.StdEncoding.DecodeString
B64Decode(s) == B64DecodeQuanta(B64Strip(s))

----------------------------------------------------------------------------
(* The primitives: key derivation, keystream, tag *)

RECURSIVE Digest(_)
Digest(s) == IF Len(s) = 0 THEN 7 ELSE (s[1] + 31 * Digest(Tail(s))) % 256

\* pbkdf2.Key(password, salt, iter, keyLen, sha3.New256): a deterministic
\* function of all its inputs, keyLen bytes long
Pbkdf2Key(password, salt, iter, keyLen) ==
    LET seed == (Digest(password) + 3 * Digest(salt) + iter) % 256
    IN  [i \in 1..keyLen |-> (seed + i) % 256]

RECURSIVE XorBits(_, _, _)
XorBits(a, b, n) ==
    IF n = 0 THEN 0
    ELSE ((a + b) % 2) + 2 * XorBits(a \div 2, b \div 2, n - 1)

Xor(a, b) == XorBits(a, b, 8)

AlgByte(alg) == IF alg = AesGcm THEN 1 ELSE 2

\* byte i of the keystream of (alg, key, nonce)
KeyStream(alg, key, nonce, i) ==
    (17 * AlgByte(alg) + key[1] + 5 * key[Len(key)]
        + 3 * nonce[1] + 11 * nonce[Len(nonce)] + 7 * i) % 256

StreamXor(alg, key, nonce, data) ==
    [i \in 1..Len(data) |-> Xor(data[i], KeyStream(alg, key, nonce, i))]

\* the authentication tag: TagSize bytes that determine (alg, key, nonce,
\* ciphertext) for the keys, nonces and lengths of the model
AeadTag(alg, key, nonce, ct) ==
    [i \in 1..TagSize |->
        IF i = 1 THEN AlgByte(alg)
        ELSE IF i = 2 THEN key[1]
        ELSE IF i = 3 THEN key[Len(key)]
        ELSE IF i = 4 THEN Digest(nonce)
        ELSE IF i = 5 THEN nonce[Len(nonce)]
        ELSE IF i = 6 THEN Len(ct) % 256
        ELSE IF i - 6 <= Len(ct) THEN ct[i - 6]
        ELSE 0]

\* aead.Seal(dst, nonce, plaintext, nil): appends ciphertext and tag to dst
AeadSeal(alg, key, dst, nonce, plaintext) ==
    LET ct == StreamXor(alg, key, nonce, plaintext)
    IN  dst \o ct \o AeadTag(alg, key, nonce, ct)

\* aead.Open(nil, nonce, ciphertext, nil)
AeadOpen(alg, key, nonce, sealed) ==
    IF Len(sealed) < TagSize
    THEN [ok |-> FALSE, pt |-> <<>>]
    ELSE
        LET ct == SubSeq(sealed, 1, Len(sealed) - TagSize)
            tag == SubSeq(sealed, Len(sealed) - TagSize + 1, Len(sealed))
        IN  IF tag # AeadTag(alg, key, nonce, ct)
            THEN [ok |-> FALSE, pt |-> <<>>]
            ELSE [ok |-> TRUE, pt |-> StreamXor(alg, key, nonce, ct)]

\* the error of a failed Open, as each library words it
AuthFailed(alg) ==
    IF alg = AesGcm
    THEN Err("cipher: message authentication failed")
    ELSE Err("chacha20poly1305: message authentication failed")

\* io.ReadFull(rand.Reader, nonce): n bytes drawn by the system, or an error
RandBytes(seed, n) == [i \in 1..n |-> (seed + 37 * i) % 256]

----------------------------------------------------------------------------
(* ConfigEncryption: AES-256-GCM under a key derived from the machine ID *)

\* aes.NewCipher accepts keys of 16, 24 and 32 bytes
AesKeyOk(key) == Len(key) \in {16, 24, 32}

\* chacha20poly1305.New accepts keys of exactly 32 bytes
ChaChaKeyOk(key) == Len(key) = 32

NewConfigEncryption_NoSalt(machineID) ==
    IF machineID = <<>>
    THEN [inst |-> None, err |-> Err("machine ID cannot be empty")]
    ELSE [inst |-> Some([machineID |-> machineID,
                         key |-> Pbkdf2Key(hardcodedEncryptionKey, <<>>,
                                           pbkdf2Iterations, aes256KeySize)]),
          err |-> Nil]

NewConfigEncryption_AcceptEmpty(machineID) ==
    [inst |-> Some([machineID |-> machineID,
                    key |-> Pbkdf2Key(hardcodedEncryptionKey, machineID,
                                      pbkdf2Iterations, aes256KeySize)]),
     err |-> Nil]

NewConfigEncryption(machineID) ==
    IF machineID = <<>>
    THEN [inst |-> None, err |-> Err("machine ID cannot be empty")]
    ELSE [inst |-> Some([machineID |-> machineID,
                         key |-> Pbkdf2Key(hardcodedEncryptionKey, machineID,
                                           pbkdf2Iterations, aes256KeySize)]),
          err |-> Nil]

\* rnd is what rand.Reader does on this call: [ok, seed]
ConfigEncryption_Encrypt_NoNonce(c, plaintext, rnd) ==
    IF ~AesKeyOk(c.key)
    THEN [text |-> <<>>,
          err |-> Wrap("failed to create cipher", Err("crypto/aes: invalid key size"))]
    ELSE IF ~rnd.ok
    THEN [text |-> <<>>,
          err |-> Wrap("failed to generate nonce", Err("unexpected EOF"))]
    ELSE
        LET nonce == RandBytes(rnd.seed, NonceSize)
            ciphertext == AeadSeal(ConfigAead, c.key, <<>>, nonce, plaintext)
        IN  [text |-> B64Encode(ciphertext), err |-> Nil]

ConfigEncryption_Encrypt(c, plaintext, rnd) ==
    IF ~AesKeyOk(c.key)
    THEN [text |-> <<>>,
          err |-> Wrap("failed to create cipher", Err("crypto/aes: invalid key size"))]
    ELSE IF ~rnd.ok
    THEN [text |-> <<>>,
          err |-> Wrap("failed to generate nonce", Err("unexpected EOF"))]
    ELSE
        LET nonce == RandBytes(rnd.seed, NonceSize)
            ciphertext == AeadSeal(ConfigAead, c.key, nonce, nonce, plaintext)
        IN  [text |-> B64Encode(ciphertext), err |-> Nil]

\* Decrypt with its own answer for an envelope too short to hold a tag
ConfigEncryption_Decrypt_LengthOracle(c, ciphertextB64) ==
    LET dec == B64Decode(ciphertextB64)
    IN  IF ~dec.ok
        THEN [pt |-> <<>>,
              err |-> Wrap("failed to decode base64", Err("illegal base64 data"))]
        ELSE IF Len(dec.bytes) < NonceSize + TagSize
        THEN [pt |-> <<>>, err |-> ErrInvalidCiphertext]
        ELSE
            LET nonce == SubSeq(dec.bytes, 1, NonceSize)
                ciphertext == SubSeq(dec.bytes, NonceSize + 1, Len(dec.bytes))
                opened == AeadOpen(ConfigAead, c.key, nonce, ciphertext)
            IN  IF ~opened.ok
                THEN [pt |-> <<>>,
                      err |-> Wrap("failed to decrypt", AuthFailed(ConfigAead))]
                ELSE [pt |-> opened.pt, err |-> Nil]

ConfigEncryption_Decrypt(c, ciphertextB64) ==
    LET dec == B64Decode(ciphertextB64)
    IN  IF ~dec.ok
        THEN [pt |-> <<>>,
              err |-> Wrap("failed to decode base64", Err("illegal base64 data"))]
        ELSE IF ~AesKeyOk(c.key)
        THEN [pt |-> <<>>,
              err |-> Wrap("failed to create cipher", Err("crypto/aes: invalid key size"))]
        ELSE IF Len(dec.bytes) < NonceSize
        THEN [pt |-> <<>>, err |-> ErrInvalidCiphertext]
        ELSE
            LET nonce == SubSeq(dec.bytes, 1, NonceSize)
                ciphertext == SubSeq(dec.bytes, NonceSize + 1, Len(dec.bytes))
                opened == AeadOpen(ConfigAead, c.key, nonce, ciphertext)
            IN  IF ~opened.ok
                THEN [pt |-> <<>>,
                      err |-> Wrap("failed to decrypt", AuthFailed(ConfigAead))]
                ELSE [pt |-> opened.pt, err |-> Nil]

----------------------------------------------------------------------------
(* DatabaseEncryption: ChaCha20-Poly1305 under the server key *)

NewDatabaseEncryption(serverKey) ==
    IF Len(serverKey) # chacha20KeySize
    THEN [inst |-> None, err |-> Wrap("server key must be 32 bytes", ErrInvalidKey)]
    ELSE [inst |-> Some([serverKey |-> serverKey]), err |-> Nil]

DatabaseEncryption_Encrypt(d, plaintext, rnd) ==
    IF ~ChaChaKeyOk(d.serverKey)
    THEN [text |-> <<>>,
          err |-> Wrap("failed to create chacha20poly1305",
                       Err("chacha20poly1305: bad key length"))]
    ELSE IF ~rnd.ok
    THEN [text |-> <<>>,
          err |-> Wrap("failed to generate nonce", Err("unexpected EOF"))]
    ELSE
        LET nonce == RandBytes(rnd.seed, NonceSize)
            ciphertext == AeadSeal(DatabaseAead, d.serverKey, nonce, nonce, plaintext)
        IN  [text |-> B64Encode(ciphertext), err |-> Nil]

DatabaseEncryption_Decrypt(d, ciphertextB64) ==
    LET dec == B64Decode(ciphertextB64)
    IN  IF ~dec.ok
        THEN [pt |-> <<>>,
              err |-> Wrap("failed to decode base64", Err("illegal base64 data"))]
        ELSE IF ~ChaChaKeyOk(d.serverKey)
        THEN [pt |-> <<>>,
              err |-> Wrap("failed to create chacha20poly1305",
                           Err("chacha20poly1305: bad key length"))]
        ELSE IF Len(dec.bytes) < NonceSize
        THEN [pt |-> <<>>, err |-> ErrInvalidCiphertext]
        ELSE
            LET nonce == SubSeq(dec.bytes, 1, NonceSize)
                ciphertext == SubSeq(dec.bytes, NonceSize + 1, Len(dec.bytes))
                opened == AeadOpen(DatabaseAead, d.serverKey, nonce, ciphertext)
            IN  IF ~opened.ok
                THEN [pt |-> <<>>,
                      err |-> Wrap("failed to decrypt", AuthFailed(DatabaseAead))]
                ELSE [pt |-> opened.pt, err |-> Nil]

\* GenerateServerKey: chacha20KeySize bytes from rand.Reader
GenerateServerKey(rnd) ==
    IF ~rnd.ok
    THEN [key |-> <<>>, err |-> Wrap("failed to generate server key", Err("unexpected EOF"))]
    ELSE [key |-> RandBytes(rnd.seed, chacha20KeySize), err |-> Nil]

\* ServerKeyToBase64
ServerKeyToBase64(key) == B64Encode(key)

ServerKeyFromBase64_NoLengthCheck(keyB64) ==
    LET dec == B64Decode(keyB64)
    IN  IF ~dec.ok
        THEN [key |-> <<>>,
              err |-> Wrap("failed to decode server key", Err("illegal base64 data"))]
        ELSE [key |-> dec.bytes, err |-> Nil]

ServerKeyFromBase64(keyB64) ==
    LET dec == B64Decode(keyB64)
    IN  IF ~dec.ok
        THEN [key |-> <<>>,
              err |-> Wrap("failed to decode server key", Err("illegal base64 data"))]
        ELSE IF Len(dec.bytes) # chacha20KeySize
        THEN [key |-> <<>>, err |-> Err("invalid server key length")]
        ELSE [key |-> dec.bytes, err |-> Nil]

----------------------------------------------------------------------------
(* The machine ID (package security, Linux build): the signals of the host,
   the derivation, the persisted copy *)

\* unicode.IsSpace on the bytes of an ASCII text
IsSpace(c) == c \in {9, 10, 11, 12, 13, 32}

RECURSIVE TrimLeft(_)
TrimLeft(s) == IF s # <<>> /\ IsSpace(Head(s)) THEN TrimLeft(Tail(s)) ELSE s

RECURSIVE TrimRight(_)
TrimRight(s) ==
    IF s # <<>> /\ IsSpace(s[Len(s)]) THEN TrimRight(SubSeq(s, 1, Len(s) - 1)) ELSE s

\* strings.TrimSpace
TrimSpace(s) == TrimRight(TrimLeft(s))

\* the bytes of a SHA-256 digest
Sha256Size == 32

RECURSIVE Mix(_)
Mix(s) == IF s = <<>> THEN 5381 ELSE (s[1] + 33 * Mix(Tail(s)) + Len(s)) % 65521

\* sha256.Sum256: Sha256Size bytes, a deterministic function of the input
Sha256Sum(s) ==
    LET m == Mix(s)
    IN  [i \in 1..Sha256Size |-> (m + (m \div (1 + (i % 7))) + 37 * i) % 256]

\* "0123456789abcdef"
HexDigits == <<48, 49, 50, 51, 52, 53, 54, 55, 56, 57, 97, 98, 99, 100, 101, 102>>

\* hex.EncodeToString
HexEncode(b) ==
    [i \in 1..(2 * Len(b)) |->
        IF i % 2 = 1
        THEN HexDigits[(b[(i + 1) \div 2] \div 16) + 1]
        ELSE HexDigits[(b[i \div 2] % 16) + 1]]

\* getCPUInfo: cpuinfo is /proc/cpuinfo as the loop over its lines leaves
\* cpuModel and cpuSerial, or None when the file cannot be read
getCPUInfo(h) ==
    IF h.cpuinfo = None
    THEN [val |-> <<>>, err |-> Err("open /proc/cpuinfo")]
    ELSE LET cpuModel == Val(h.cpuinfo).model
             cpuSerial == Val(h.cpuinfo).serial
         IN  IF cpuModel # <<>>
             THEN IF cpuSerial # <<>>
                  THEN [val |-> cpuModel \o <<124>> \o cpuSerial, err |-> Nil]
                  ELSE [val |-> cpuModel, err |-> Nil]
             ELSE [val |-> <<>>, err |-> Err("could not determine CPU info")]

RECURSIVE FirstMAC(_)
FirstMAC(interfaces) ==
    IF interfaces = <<>>
    THEN [val |-> <<>>, err |-> Err("no valid network interface found")]
    ELSE LET iface == Head(interfaces)
         IN  IF iface.loopback \/ ~iface.up
             THEN FirstMAC(Tail(interfaces))
             ELSE IF iface.mac # <<>>
                  THEN [val |-> iface.mac, err |-> Nil]
                  ELSE FirstMAC(Tail(interfaces))

\* getPrimaryMACAddress: the first interface that is up, not loopback and
\* has a hardware address
getPrimaryMACAddress(h) ==
    IF h.interfaces = None
    THEN [val |-> <<>>, err |-> Err("net.Interfaces failed")]
    ELSE FirstMAC(Val(h.interfaces))

\* platformSpecificID of machine_id_linux.go
platformSpecificID(h) ==
    LET d1 == IF IsSome(h.etcMachineID) /\ Len(Val(h.etcMachineID)) > 0
              THEN << TrimSpace(Val(h.etcMachineID)) >>
              ELSE << >>
        d2 == IF Len(d1) = 0 /\ IsSome(h.dbusMachineID) /\ Len(Val(h.dbusMachineID)) > 0
              THEN << TrimSpace(Val(h.dbusMachineID)) >>
              ELSE d1
        cpuInfo == getCPUInfo(h)
        d3 == IF cpuInfo.err = Nil THEN Append(d2, cpuInfo.val) ELSE d2
    IN  IF Len(d3) = 0
        THEN [data |-> << >>, err |-> Err("could not collect Linux-specific data")]
        ELSE [data |-> d3, err |-> Nil]

\* combined += d + "|"
RECURSIVE Combine(_)
Combine(data) ==
    IF Len(data) = 0 THEN << >> ELSE Head(data) \o <<124>> \o Combine(Tail(data))

\* what generateMachineID collects: the platform data, the MAC address and
\* the hostname, each only when its source gave it
CollectedData(h) ==
    LET platformData == platformSpecificID(h)
        a == IF platformData.err = Nil THEN platformData.data ELSE << >>
        macAddr == getPrimaryMACAddress(h)
        b == IF macAddr.err = Nil THEN Append(a, macAddr.val) ELSE a
    IN  IF IsSome(h.hostname) THEN Append(b, Val(h.hostname)) ELSE b

generateMachineID(h) ==
    LET data == CollectedData(h)
    IN  IF Len(data) = 0
        THEN [val |-> << >>,
              err |-> Err("could not collect any machine-specific data")]
        ELSE [val |-> HexEncode(Sha256Sum(Combine(data))), err |-> Nil]

\* readMachineIDFromRegistry: os.ReadFile fails when the file is not there
\* or may not be read
readMachineIDFromRegistry(reg) ==
    IF reg.denied \/ reg.content = None
    THEN [val |-> << >>, err |-> Err("open /var/lib/posservice/machine_id")]
    ELSE [val |-> TrimSpace(Val(reg.content)), err |-> Nil]

saveMachineIDToRegistry_Half(reg, machineID, ok) ==
    IF ok
    THEN [reg |-> [reg EXCEPT !.content = Some(SubSeq(machineID, 1, Len(machineID) \div 2))],
          err |-> Nil]
    ELSE [reg |-> reg,
          err |-> Wrap("failed to write machine ID file", Err("permission denied"))]

\* saveMachineIDToRegistry: ok tells whether MkdirAll and WriteFile succeed
saveMachineIDToRegistry(reg, machineID, ok) ==
    IF ok
    THEN [reg |-> [reg EXCEPT !.content = Some(machineID)], err |-> Nil]
    ELSE [reg |-> reg,
          err |-> Wrap("failed to write machine ID file", Err("permission denied"))]

\* what a call of GetMachineID gives back, and what it did on the way
IdResult(cache, reg, val, err, from) ==
    [cache |-> cache, reg |-> reg, val |-> val, err |-> err, from |-> from]

GetMachineID_Locked_NoDoubleCheck(cache, reg, h, saveOk) ==
    LET rd == readMachineIDFromRegistry(reg)
    IN  IF rd.err = Nil /\ rd.val # << >>
        THEN IdResult(rd.val, reg, rd.val, Nil, "registry")
        ELSE LET gen == generateMachineID(h)
             IN  IF gen.err # Nil
                 THEN IdResult(cache, reg, << >>,
                               Wrap("failed to generate machine ID", gen.err), "none")
                 ELSE IdResult(gen.val,
                               saveMachineIDToRegistry(reg, gen.val, saveOk).reg,
                               gen.val, Nil, "derived")

GetMachineID_Locked_SaveMustSucceed(cache, reg, h, saveOk) ==
    IF cache # << >>
    THEN IdResult(cache, reg, cache, Nil, "cache")
    ELSE LET rd == readMachineIDFromRegistry(reg)
         IN  IF rd.err = Nil /\ rd.val # << >>
             THEN IdResult(rd.val, reg, rd.val, Nil, "registry")
             ELSE LET gen == generateMachineID(h)
                  IN  IF gen.err # Nil
                      THEN IdResult(cache, reg, << >>,
                                    Wrap("failed to generate machine ID", gen.err), "none")
                      ELSE LET sv == saveMachineIDToRegistry(reg, gen.val, saveOk)
                           IN  IF sv.err # Nil
                               THEN IdResult(cache, reg, << >>,
                                             Wrap("failed to save machine ID", sv.err),
                                             "none")
                               ELSE IdResult(gen.val, sv.reg, gen.val, Nil, "derived")

\* GetMachineID from the double check under machineIDMutex.Lock() to its
\* return
GetMachineID_Locked(cache, reg, h, saveOk) ==
    IF cache # << >>
    THEN IdResult(cache, reg, cache, Nil, "cache")
    ELSE LET rd == readMachineIDFromRegistry(reg)
         IN  IF rd.err = Nil /\ rd.val # << >>
             THEN IdResult(rd.val, reg, rd.val, Nil, "registry")
             ELSE LET gen == generateMachineID(h)
                  IN  IF gen.err # Nil
                      THEN IdResult(cache, reg, << >>,
                                    Wrap("failed to generate machine ID", gen.err), "none")
                      ELSE \* a failed save is logged and nothing more
                           IdResult(gen.val,
                                    saveMachineIDToRegistry(reg, gen.val, saveOk).reg,
                                    gen.val, Nil, "derived")

----------------------------------------------------------------------------
(* Inputs of the cipher bench *)

\* "", "m1", "m2"
MachineIDs == { <<>>, <<109, 49>>, <<109, 50>> }

\* server keys as a caller supplies them: two generated keys, the bytes that
\* happen to be the config key of machine "m1", and keys of the wrong size
ServerKeys ==
    { RandBytes(1, chacha20KeySize),
      RandBytes(2, chacha20KeySize),
      Pbkdf2Key(hardcodedEncryptionKey, <<109, 49>>, pbkdf2Iterations, aes256KeySize),
      <<>>,
      RandBytes(1, 16),
      RandBytes(1, 64) }

\* "", a NUL byte, and binary text with a NUL inside
Plaintexts == { <<>>, <<0>>, <<104, 0, 255>> }

\* what rand.Reader can do on one call
RandOutcomes == { [ok |-> TRUE, seed |-> 3], [ok |-> TRUE, seed |-> 4],
                  [ok |-> FALSE, seed |-> 0] }

Slots == {1, 2}

NoResult == [op |-> "none", dom |-> "none", slot |-> 0, err |-> Nil, out |-> <<>>]

NoRet == [g |-> 0, op |-> "none", key |-> <<>>, val |-> <<>>, err |-> Nil,
          out |-> <<>>, all |-> {}, flag |-> FALSE, panicked |-> FALSE,
          w |-> 0, ended |-> FALSE, bodyErr |-> Nil]

IdlePc == [op |-> "idle", key |-> <<>>, val |-> <<>>, n |-> 0, w |-> 0,
           puts |-> {}, dels |-> {}]

Goroutines == {1, 2}

\* a host of which nothing can be read
NoHost == [etcMachineID |-> None, dbusMachineID |-> None, cpuinfo |-> None,
           interfaces |-> None, hostname |-> None]

\* the hosts: one with every signal ("a1\n" in /etc/machine-id, CPU "c",
\* a loopback interface before one with MAC "m", hostname "h"); one with an
\* empty /etc/machine-id, "d2\n" in the dbus file and a CPU with a serial;
\* one with the hostname alone; one with the MAC alone, behind an interface
\* that is down, and a cpuinfo without a model name; one whose
\* /etc/machine-id is a line feed and nothing else; and NoHost
Hosts ==
    { [etcMachineID |-> Some(<<97, 49, 10>>), dbusMachineID |-> Some(<<100, 50, 10>>),
       cpuinfo |-> Some([model |-> <<99>>, serial |-> << >>]),
       interfaces |-> Some(<< [loopback |-> TRUE, up |-> TRUE, mac |-> << >>],
                              [loopback |-> FALSE, up |-> TRUE, mac |-> <<109>>] >>),
       hostname |-> Some(<<104>>)],
      [etcMachineID |-> Some(<< >>), dbusMachineID |-> Some(<<100, 50, 10>>),
       cpuinfo |-> Some([model |-> <<99>>, serial |-> <<115>>]),
       interfaces |-> Some(<< >>),
       hostname |-> None],
      [NoHost EXCEPT !.hostname = Some(<<104>>)],
      [NoHost EXCEPT
         !.cpuinfo = Some([model |-> << >>, serial |-> <<115>>]),
         !.interfaces = Some(<< [loopback |-> FALSE, up |-> FALSE, mac |-> <<120>>],
                                [loopback |-> FALSE, up |-> TRUE, mac |-> <<109>>] >>)],
      [NoHost EXCEPT !.etcMachineID = Some(<<10>>)],
      NoHost }

\* the persisted machine ID as a process finds it: no file, an empty file,
\* a file that holds "zz\n"; and whether the file may be read
Registries ==
    { [content |-> c, denied |-> d] :
        c \in { None, Some(<< >>), Some(<<122, 122, 10>>) }, d \in BOOLEAN }

NoIdRet == [g |-> 0, val |-> << >>, err |-> Nil, from |-> "none"]

\* derived, saves, cacheWrites: how often this process derived a machine ID,
\* called saveMachineIDToRegistry and wrote the cache slot; returned: the
\* values its calls returned; before: the values the processes before it
\* returned
NoIdLog == [derived |-> 0, saves |-> 0, cacheWrites |-> 0,
            returned |-> {}, before |-> {}]

\* the bench before its first call; the store is not opened
\* a goroutine that is in no call of the Manager
\* a function handed to Update is what it sets and what it returns
NoFn == [port |-> 0, err |-> Nil]

IdleCpc == [op |-> "idle", at |-> "idle", cfg |-> 0, data |-> <<>>, fn |-> NoFn]

\* no run of the application yet: nothing built, nobody inside a callback
NoApp == [run |-> 0, at |-> "none", machineID |-> <<>>, config |-> FALSE, db |-> FALSE,
          httpServer |-> FALSE, serviceManager |-> FALSE, err |-> Nil,
          serverKey |-> <<>>, port |-> 0, shutdownErr |-> Nil, connsAtClose |-> 0]

NoCret == [g |-> 0, op |-> "none", err |-> Nil, cfg |-> 0]

CipherInit ==
    /\ ce = [s \in Slots |-> None]
    /\ de = [s \in Slots |-> None]
    /\ env = None
    /\ cres = NoResult
    /\ db = None
    /\ table = {}
    /\ tx = None
    /\ mu = [writer |-> 0, readers |-> {}]
    /\ pc = [g \in Goroutines |-> IdlePc]
    /\ ret = NoRet
    /\ plain = {}
    /\ now = 0
    /\ cachedMachineID = <<>>
    /\ machineIDMutex = [writer |-> 0, readers |-> {}]
    /\ registry = [content |-> None, denied |-> FALSE]
    /\ host = NoHost
    /\ idpc = [g \in Goroutines |-> "idle"]
    /\ idret = NoIdRet
    /\ idlog = NoIdLog
    /\ dataDir = [exists |-> FALSE, dbFile |-> FALSE]
    /\ mgr = None
    /\ cfgs = <<>>
    /\ mmu = [writer |-> 0, readers |-> {}]
    /\ cfgFile = [exists |-> FALSE, target |-> None, temp |-> None]
    /\ cpc = [g \in Goroutines |-> IdleCpc]
    /\ cret = NoCret
    /\ forged = "none"
    /\ keyBuf = <<>>
    /\ deRef = [s \in Slots |-> None]
    /\ prog = None
    /\ srv = None
    /\ app = NoApp
    /\ resp = None

----------------------------------------------------------------------------
(* Operations of the cipher bench: one call of the package's API each *)

CNewConfigEncryption(s, machineID) ==
    /\ ce[s] = None
    /\ \E r \in {NewConfigEncryption(machineID)} :
           /\ ce' = [ce EXCEPT ![s] = r.inst]
           /\ cres' = [op |-> "NewConfigEncryption", dom |-> "config", slot |-> s,
                       err |-> r.err, out |-> <<>>]
    /\ UNCHANGED <<de, env>>
    /\ UNCHANGED storeVars
    /\ UNCHANGED idVars
    /\ UNCHANGED appVars

CNewDatabaseEncryption(s, serverKey) ==
    /\ de[s] = None
    /\ \E r \in {NewDatabaseEncryption(serverKey)} :
           /\ de' = [de EXCEPT ![s] = r.inst]
           /\ cres' = [op |-> "NewDatabaseEncryption", dom |-> "database", slot |-> s,
                       err |-> r.err, out |-> <<>>]
    /\ UNCHANGED <<ce, env>>
    /\ UNCHANGED storeVars
    /\ UNCHANGED idVars
    /\ UNCHANGED appVars

\* one envelope is sealed per run of the bench
CConfigEncrypt(s, plaintext, rnd) ==
    /\ IsSome(ce[s])
    /\ env = None
    /\ \E r \in {ConfigEncryption_Encrypt(Val(ce[s]), plaintext, rnd)} :
           /\ env' = IF r.err = Nil
                     THEN Some([text |-> r.text, dom |-> "config", slot |-> s,
                                pt |-> plaintext])
                     ELSE env
           /\ cres' = [op |-> "Encrypt", dom |-> "config", slot |-> s,
                       err |-> r.err, out |-> r.text]
    /\ UNCHANGED <<ce, de>>
    /\ UNCHANGED storeVars
    /\ UNCHANGED idVars
    /\ UNCHANGED appVars

CDatabaseEncrypt(s, plaintext, rnd) ==
    /\ IsSome(de[s])
    /\ env = None
    /\ \E r \in {DatabaseEncryption_Encrypt(Val(de[s]), plaintext, rnd)} :
           /\ env' = IF r.err = Nil
                     THEN Some([text |-> r.text, dom |-> "database", slot |-> s,
                                pt |-> plaintext])
                     ELSE env
           /\ cres' = [op |-> "Encrypt", dom |-> "database", slot |-> s,
                       err |-> r.err, out |-> r.text]
    /\ UNCHANGED <<ce, de>>
    /\ UNCHANGED storeVars
    /\ UNCHANGED idVars
    /\ UNCHANGED appVars

\* Decrypt is applied to the envelope sealed last
CConfigDecrypt(s) ==
    /\ IsSome(ce[s])
    /\ IsSome(env)
    /\ \E r \in {ConfigEncryption_Decrypt(Val(ce[s]), Val(env).text)} :
           cres' = [op |-> "Decrypt", dom |-> "config", slot |-> s,
                    err |-> r.err, out |-> r.pt]
    /\ UNCHANGED <<ce, de, env>>
    /\ UNCHANGED storeVars
    /\ UNCHANGED idVars
    /\ UNCHANGED appVars

CDatabaseDecrypt(s) ==
    /\ IsSome(de[s])
    /\ IsSome(env)
    /\ \E r \in {DatabaseEncryption_Decrypt(Val(de[s]), Val(env).text)} :
           cres' = [op |-> "Decrypt", dom |-> "database", slot |-> s,
                    err |-> r.err, out |-> r.pt]
    /\ UNCHANGED <<ce, de, env>>
    /\ UNCHANGED storeVars
    /\ UNCHANGED idVars
    /\ UNCHANGED appVars

CipherNext ==
    \/ \E s \in Slots, m \in MachineIDs : CNewConfigEncryption(s, m)
    \/ \E s \in Slots, k \in ServerKeys : CNewDatabaseEncryption(s, k)
    \/ \E s \in Slots, p \in Plaintexts, rnd \in RandOutcomes : CConfigEncrypt(s, p, rnd)
    \/ \E s \in Slots, p \in Plaintexts, rnd \in RandOutcomes : CDatabaseEncrypt(s, p, rnd)
    \/ \E s \in Slots : CConfigDecrypt(s)
    \/ \E s \in Slots : CDatabaseDecrypt(s)

----------------------------------------------------------------------------
(* Envelopes that were not made by Encrypt: texts from elsewhere, and a
   sealed envelope that was changed on its way back *)

\* byte i of the envelope gets another value
FlipByte(text, i) ==
    LET b == B64Decode(text).bytes
    IN  B64Encode([b EXCEPT ![i] = (@ + 1) % 256])

\* the envelope is cut to its first n bytes
Truncate(text, n) == B64Encode(SubSeq(B64Decode(text).bytes, 1, n))

\* character j of the text gets the next character of the alphabet
ChangeChar(text, j) == [text EXCEPT ![j] = B64Char((B64Val(@) + 1) % 64)]

\* the last character of the text that is not padding
LastChar(text) ==
    CHOOSE j \in 1..Len(text) :
        /\ text[j] # B64Pad
        /\ \A k \in (j + 1)..Len(text) : text[k] = B64Pad

\* a line feed at the end, as a text editor or a mail gateway adds one
AppendLF(text) == Append(text, 10)

\* what can be done to an envelope, and where: a byte changed in the nonce
\* (first, middle, last byte), right after the nonce, or at the very end
\* (position 0 stands for the last one); the envelope cut to its nonce, or
\* by one byte; a character of the text changed, the first or the last; a
\* line feed added
ForgeKinds ==
    { [how |-> "flip", at |-> i] : i \in { 1, 6, NonceSize, NonceSize + 1, 0 } }
    \cup { [how |-> "cut", at |-> n] : n \in { NonceSize, 0 } }
    \cup { [how |-> "char", at |-> j] : j \in { 1, 0 } }
    \cup { [how |-> "linefeed", at |-> 0] }

Forgery(k, text) ==
    IF k.how = "flip"
    THEN FlipByte(text, IF k.at = 0 THEN Len(B64Decode(text).bytes) ELSE k.at)
    ELSE IF k.how = "cut"
    THEN Truncate(text, IF k.at = 0 THEN Len(B64Decode(text).bytes) - 1 ELSE k.at)
    ELSE IF k.how = "char"
    THEN ChangeChar(text, IF k.at = 0 THEN LastChar(text) ELSE k.at)
    ELSE AppendLF(text)

\* texts that were never sealed: "", "!!!!", three bytes, a nonce and
\* nothing else, a nonce and fifteen bytes, a nonce and sixteen bytes
ForeignTexts ==
    { <<>>,
      <<33, 33, 33, 33>>,
      B64Encode(RandBytes(9, 3)),
      B64Encode(RandBytes(9, NonceSize)),
      B64Encode(RandBytes(9, NonceSize + TagSize - 1)),
      B64Encode(RandBytes(9, NonceSize + TagSize)) }

\* the envelope sealed last comes back changed
CForge(k) ==
    /\ IsSome(env)
    /\ forged = "none"
    /\ \E t \in { Forgery(k, Val(env).text) } :
           env' = Some([Val(env) EXCEPT !.text = t])
    /\ forged' = k.how
    /\ cres' = [NoResult EXCEPT !.op = "Forge"]
    /\ UNCHANGED <<ce, de>>
    /\ UNCHANGED storeVars
    /\ UNCHANGED idVars
    /\ UNCHANGED <<dataDir, cfgVars, lateVars, srvVars>>

\* a text that no instance sealed is handed to Decrypt
CForeign(text) ==
    /\ env = None
    /\ env' = Some([text |-> text, dom |-> "none", slot |-> 0, pt |-> <<>>])
    /\ forged' = "foreign"
    /\ cres' = [NoResult EXCEPT !.op = "Forge"]
    /\ UNCHANGED <<ce, de>>
    /\ UNCHANGED storeVars
    /\ UNCHANGED idVars
    /\ UNCHANGED <<dataDir, cfgVars, lateVars, srvVars>>

\* the machine IDs and server keys of the instances under attack
ForgeMachineIDs == { <<109, 49>>, <<109, 50>> }
ForgeServerKeys == { RandBytes(1, chacha20KeySize), RandBytes(2, chacha20KeySize) }
ForgePlaintexts == { <<>>, <<104, 0, 255>> }
ForgeRandOutcomes == { [ok |-> TRUE, seed |-> 3] }

ForgeNext ==
    \/ \E s \in Slots, m \in ForgeMachineIDs : CNewConfigEncryption(s, m)
    \/ \E s \in Slots, k \in ForgeServerKeys : CNewDatabaseEncryption(s, k)
    \/ \E s \in Slots, p \in ForgePlaintexts, rnd \in ForgeRandOutcomes :
           CConfigEncrypt(s, p, rnd)
    \/ \E s \in Slots, p \in ForgePlaintexts, rnd \in ForgeRandOutcomes :
           CDatabaseEncrypt(s, p, rnd)
    \/ \E s \in Slots : CConfigDecrypt(s)
    \/ \E s \in Slots : CDatabaseDecrypt(s)
    \/ \E k \in ForgeKinds : CForge(k)
    \/ \E t \in ForeignTexts : CForeign(t)

\* the cipher bench with an envelope that may come back changed
SpecForge == CipherInit /\ [][ForgeNext]_vars

----------------------------------------------------------------------------
(* The server key on its way from the server: generated, turned into text,
   carried, turned back into bytes *)

\* GenerateServerKey()
CGenerateServerKey(rnd) ==
    /\ env = None
    /\ \E r \in { GenerateServerKey(rnd) } :
           cres' = [op |-> "GenerateServerKey", dom |-> "key", slot |-> 0,
                    err |-> r.err, out |-> r.key]
    /\ UNCHANGED <<ce, de, env>>
    /\ UNCHANGED storeVars
    /\ UNCHANGED idVars
    /\ UNCHANGED appVars

\* ServerKeyToBase64(key)
CServerKeyToBase64(key) ==
    /\ env = None
    /\ \E t \in { ServerKeyToBase64(key) } :
           /\ env' = Some([text |-> t, dom |-> "key", slot |-> 0, pt |-> key])
           /\ cres' = [op |-> "ServerKeyToBase64", dom |-> "key", slot |-> 0,
                       err |-> Nil, out |-> t]
    /\ UNCHANGED <<ce, de>>
    /\ UNCHANGED storeVars
    /\ UNCHANGED idVars
    /\ UNCHANGED appVars

\* ServerKeyFromBase64 on the text that arrived
CServerKeyFromBase64 ==
    /\ IsSome(env)
    /\ \E r \in { ServerKeyFromBase64(Val(env).text) } :
           cres' = [op |-> "ServerKeyFromBase64", dom |-> "key", slot |-> 0,
                    err |-> r.err, out |-> r.key]
    /\ UNCHANGED <<ce, de, env>>
    /\ UNCHANGED storeVars
    /\ UNCHANGED idVars
    /\ UNCHANGED appVars

\* the keys that are turned into text: the key just generated, and keys of
\* 16, 31, 32 and 33 bytes from elsewhere
KeysToSend ==
    { RandBytes(1, chacha20KeySize), RandBytes(2, chacha20KeySize),
      RandBytes(1, 16), RandBytes(1, chacha20KeySize - 1),
      RandBytes(1, chacha20KeySize + 1) }
    \cup (IF cres.op = "GenerateServerKey" /\ cres.err = Nil THEN { cres.out } ELSE {})

KeyTextNext ==
    \/ \E rnd \in RandOutcomes : CGenerateServerKey(rnd)
    \/ \E k \in KeysToSend : CServerKeyToBase64(k)
    \/ CServerKeyFromBase64
    \/ \E k \in ForgeKinds : CForge(k)
    \/ \E t \in ForeignTexts : CForeign(t)

SpecKeyText == CipherInit /\ [][KeyTextNext]_vars

----------------------------------------------------------------------------
(* The key slice a DatabaseEncryption is made from.  A Go slice is a
   reference to a backing array: keyBuf holds the arrays, and the serverKey
   field of an instance is the address of the array it was handed. *)

MaxKeyBufs == 2

\* the caller gets a key: GenerateServerKey() or ServerKeyFromBase64(...)
MakeKey(rnd) ==
    /\ Len(keyBuf) < MaxKeyBufs
    /\ \E r \in { GenerateServerKey(rnd) } :
           /\ r.err = Nil
           /\ keyBuf' = Append(keyBuf, r.key)
    /\ UNCHANGED <<deRef, prog>>
    /\ UNCHANGED <<cipherVars, storeVars, idVars, dataDir, cfgVars, forged, srvVars>>

\* NewDatabaseEncryption(k), k the slice at address a: the instance keeps
\* the slice it was handed (serverKey: serverKey).  The field given is not
\* in the code: it remembers the bytes the key had at that moment.
RNewDatabaseEncryption(s, a) ==
    /\ deRef[s] = None
    /\ a \in 1..Len(keyBuf)
    /\ \E r \in { NewDatabaseEncryption(keyBuf[a]) } :
           /\ deRef' = [deRef EXCEPT ![s] =
                            IF r.err = Nil
                            THEN Some([serverKey |-> a, given |-> keyBuf[a]])
                            ELSE None]
           /\ cres' = [op |-> "NewDatabaseEncryption", dom |-> "database",
                       slot |-> s, err |-> r.err, out |-> <<>>]
    /\ UNCHANGED <<keyBuf, prog>>
    /\ UNCHANGED <<ce, de, env>>
    /\ UNCHANGED <<storeVars, idVars, dataDir, cfgVars, forged, srvVars>>

\* the key an instance works with: what its slice holds now
KeyInUse(s) == keyBuf[Val(deRef[s]).serverKey]

\* the caller writes into its own slice: one byte, or zeroes all over it
\* once it is done with the key
CallerWrites(a, whole) ==
    /\ a \in 1..Len(keyBuf)
    /\ keyBuf' = [keyBuf EXCEPT ![a] =
                      IF whole THEN [i \in 1..Len(keyBuf[a]) |-> 0]
                      ELSE [keyBuf[a] EXCEPT ![1] = 255]]
    /\ keyBuf'[a] # keyBuf[a]
    /\ UNCHANGED <<deRef, prog>>
    /\ UNCHANGED <<cipherVars, storeVars, idVars, dataDir, cfgVars, forged, srvVars>>

\* Encrypt on such an instance
REncrypt(s, plaintext, rnd) ==
    /\ IsSome(deRef[s])
    /\ env = None
    /\ \E r \in { DatabaseEncryption_Encrypt([serverKey |-> KeyInUse(s)], plaintext, rnd) } :
           /\ r.err = Nil
           /\ env' = Some([text |-> r.text, dom |-> "database", slot |-> s,
                           pt |-> plaintext])
           /\ cres' = [op |-> "Encrypt", dom |-> "database", slot |-> s,
                       err |-> r.err, out |-> r.text]
    /\ UNCHANGED <<keyBuf, deRef, prog>>
    /\ UNCHANGED <<ce, de>>
    /\ UNCHANGED <<storeVars, idVars, dataDir, cfgVars, forged, srvVars>>

\* Decrypt on such an instance
RDecrypt(s) ==
    /\ IsSome(deRef[s])
    /\ IsSome(env)
    /\ \E r \in { DatabaseEncryption_Decrypt([serverKey |-> KeyInUse(s)], Val(env).text) } :
           cres' = [op |-> "Decrypt", dom |-> "database", slot |-> s,
                    err |-> r.err, out |-> r.pt]
    /\ UNCHANGED <<keyBuf, deRef, prog>>
    /\ UNCHANGED <<ce, de, env>>
    /\ UNCHANGED <<storeVars, idVars, dataDir, cfgVars, forged, srvVars>>

\* one draw of rand.Reader for the nonce is enough here
OneNonce == { [ok |-> TRUE, seed |-> 3] }

KeyOwnerNext ==
    \/ \E rnd \in RandOutcomes : MakeKey(rnd)
    \/ \E s \in Slots, a \in 1..MaxKeyBufs : RNewDatabaseEncryption(s, a)
    \/ \E a \in 1..MaxKeyBufs, whole \in BOOLEAN : CallerWrites(a, whole)
    \/ \E s \in Slots, rnd \in OneNonce : REncrypt(s, <<104, 0, 255>>, rnd)
    \/ \E s \in Slots : RDecrypt(s)

SpecKeyOwner == CipherInit /\ [][KeyOwnerNext]_vars

----------------------------------------------------------------------------
(* The settings table: key is the primary key, value is NOT NULL *)

Row(key, value, t) ==
    [key |-> key, value |-> value, created_at |-> t, updated_at |-> t]

RowsOf(rows, key) == { r \in rows : r.key = key }

\* SELECT value FROM settings WHERE key = ?  (QueryRow takes the first row)
SqlSelectValue(rows, key) ==
    IF RowsOf(rows, key) = {}
    THEN [found |-> FALSE, value |-> <<>>]
    ELSE [found |-> TRUE, value |-> (CHOOSE r \in RowsOf(rows, key) : TRUE).value]

SqlUpsert_DoNothing(rows, key, value, t) ==
    IF RowsOf(rows, key) = {}
    THEN rows \cup { Row(key, value, t) }
    ELSE rows

\* INSERT ... ON CONFLICT(key) DO UPDATE SET value = excluded.value,
\* updated_at = CURRENT_TIMESTAMP; the settings_updated_at trigger then sets
\* updated_at of the updated row once more
SqlUpsert_Replace(rows, key, value, t) ==
    { r \in rows : r.key # key } \cup { Row(key, value, t) }

SqlUpsert(rows, key, value, t) ==
    IF RowsOf(rows, key) = {}
    THEN rows \cup { Row(key, value, t) }
    ELSE { IF r.key = key
           THEN [r EXCEPT !.value = value, !.updated_at = t]
           ELSE r : r \in rows }

\* INSERT INTO settings (key, value) VALUES (?, ?): the timestamps default to
\* CURRENT_TIMESTAMP, and the primary key rejects a second row for the key
SqlInsert(rows, key, value, t) ==
    IF RowsOf(rows, key) # {}
    THEN [rows |-> rows, err |-> Err("UNIQUE constraint failed: settings.key")]
    ELSE [rows |-> rows \cup { Row(key, value, t) }, err |-> Nil]

\* DELETE FROM settings WHERE key = ?
SqlDelete(rows, key) ==
    [rows |-> rows \ RowsOf(rows, key), affected |-> Cardinality(RowsOf(rows, key))]

\* SELECT EXISTS(SELECT 1 FROM settings WHERE key = ?)
SqlExists(rows, key) == RowsOf(rows, key) # {}

\* fmt.Errorf("setting not found: %s", key): a fresh error that wraps nothing;
\* its text is kept without the key
ErrNotFound == Err("setting not found")
ErrTxDone == Err("sql: transaction has already been committed or rolled back")

----------------------------------------------------------------------------
(* DB methods on the rows they are given; d is the DB *)

GetSetting_EmptyOnDecryptError(d, rows, key) ==
    LET q == SqlSelectValue(rows, key)
    IN  IF ~q.found
        THEN [out |-> <<>>, err |-> ErrNotFound]
        ELSE [out |-> DatabaseEncryption_Decrypt(Val(d.encryption), q.value).pt,
              err |-> Nil]

GetSetting(d, rows, key) ==
    LET q == SqlSelectValue(rows, key)
    IN  IF ~q.found
        THEN [out |-> <<>>, err |-> ErrNotFound]
        ELSE
            LET dec == DatabaseEncryption_Decrypt(Val(d.encryption), q.value)
            IN  IF dec.err # Nil
                THEN [out |-> <<>>,
                      err |-> Wrap("failed to decrypt setting value", dec.err)]
                ELSE [out |-> dec.pt, err |-> Nil]

SetSetting_Plain(d, rows, key, value, rnd, t) ==
    [rows |-> SqlUpsert(rows, key, value, t), err |-> Nil]

SetSetting_InsertOnly(d, rows, key, value, rnd, t) ==
    LET enc == DatabaseEncryption_Encrypt(Val(d.encryption), value, rnd)
    IN  IF enc.err # Nil
        THEN [rows |-> rows,
              err |-> Wrap("failed to encrypt setting value", enc.err)]
        ELSE [rows |-> SqlInsert(rows, key, enc.text, t).rows, err |-> Nil]

SetSetting(d, rows, key, value, rnd, t) ==
    LET enc == DatabaseEncryption_Encrypt(Val(d.encryption), value, rnd)
    IN  IF enc.err # Nil
        THEN [rows |-> rows,
              err |-> Wrap("failed to encrypt setting value", enc.err)]
        ELSE [rows |-> SqlUpsert(rows, key, enc.text, t), err |-> Nil]

DeleteSetting_Silent(rows, key) ==
    [rows |-> SqlDelete(rows, key).rows, err |-> Nil]

DeleteSetting(rows, key) ==
    LET res == SqlDelete(rows, key)
    IN  IF res.affected = 0
        THEN [rows |-> res.rows, err |-> ErrNotFound]
        ELSE [rows |-> res.rows, err |-> Nil]

GetAllSettings_Raw(d, rows) ==
    [all |-> { <<r.key, r.value>> : r \in rows }, err |-> Nil]

GetAllSettings_FailOnDecryptError(d, rows) ==
    IF \E x \in rows : DatabaseEncryption_Decrypt(Val(d.encryption), x.value).err # Nil
    THEN [all |-> {}, err |-> Err("failed to decrypt setting value")]
    ELSE [all |-> { <<r.key, DatabaseEncryption_Decrypt(Val(d.encryption), r.value).pt>> :
                      r \in rows },
          err |-> Nil]

\* a row that does not decrypt is skipped with a warning
GetAllSettings(d, rows) ==
    [all |-> { <<r.key, DatabaseEncryption_Decrypt(Val(d.encryption), r.value).pt>> :
                 r \in { x \in rows :
                           DatabaseEncryption_Decrypt(Val(d.encryption), x.value).err = Nil } },
     err |-> Nil]

SettingExists(rows, key) == [flag |-> SqlExists(rows, key), err |-> Nil]

----------------------------------------------------------------------------
(* DB.Transaction *)

\* fmt.Errorf("failed to rollback transaction: %v (original error: %w)", rbErr, err):
\* a new error whose text holds rbErr and which wraps err
RollbackFailed(rbErr, err) == <<"failed to rollback transaction">> \o rbErr \o err

Transaction_End_CommitOnError(t, rows, how, e) ==
    [rows |-> IF t.state = "open" THEN t.view ELSE rows,
     tx |-> None, err |-> e, panicked |-> how = "panic"]

Transaction_End_WrapAlways(t, rows, how, e) ==
    [rows |-> IF how = "return" /\ e = Nil /\ t.state = "open" THEN t.view ELSE rows,
     tx |-> None,
     err |-> IF how = "return" /\ e # Nil THEN Wrap("transaction failed", e) ELSE Nil,
     panicked |-> how = "panic"]

Transaction_End_NoRecover(t, rows, how, e) ==
    IF how = "panic"
    THEN [rows |-> rows, tx |-> Some(t), err |-> Nil, panicked |-> TRUE]
    ELSE [rows |-> IF e = Nil /\ t.state = "open" THEN t.view ELSE rows,
          tx |-> None, err |-> e, panicked |-> FALSE]

\* What Transaction does once fn(tx) has ended, by returning e (how =
\* "return") or by panicking (how = "panic"); t is the transaction as the
\* body left it and rows the committed table.  The deferred db.mu.Unlock()
\* runs in every case, after the deferred recover.
Transaction_End(t, rows, how, e) ==
    IF how = "panic"
    THEN \* recover(): tx.Rollback(), its result dropped, then panic(p) again
         [rows |-> rows, tx |-> None, err |-> Nil, panicked |-> TRUE]
    ELSE IF e # Nil
    THEN IF t.state = "open"
         THEN \* tx.Rollback() succeeds: return err
              [rows |-> rows, tx |-> None, err |-> e, panicked |-> FALSE]
         ELSE \* tx.Rollback() returns sql.ErrTxDone
              [rows |-> rows, tx |-> None,
               err |-> RollbackFailed(ErrTxDone, e), panicked |-> FALSE]
    ELSE IF t.state = "open"
         THEN \* tx.Commit() succeeds
              [rows |-> t.view, tx |-> None, err |-> Nil, panicked |-> FALSE]
         ELSE [rows |-> rows, tx |-> None,
               err |-> Wrap("failed to commit transaction", ErrTxDone),
               panicked |-> FALSE]

----------------------------------------------------------------------------
(* Inputs of the store *)

\* "k1", "k2"
SettingKeys == { <<107, 49>>, <<107, 50>> }

\* "v1", "v2"
SettingValues == { <<118, 49>>, <<118, 50>> }

\* the server key the store is opened with, and the key of somebody else
StoreKey == RandBytes(1, chacha20KeySize)
ForeignKey == RandBytes(2, chacha20KeySize)

\* what rand.Reader can do during one SetSetting
StoreRandOutcomes == { [ok |-> TRUE, seed |-> 3], [ok |-> FALSE, seed |-> 0] }

\* the values a transaction body writes with its own SQL: a value sealed
\* under the store's key, a value sealed under another key (as the body of
\* TestTransaction does), and a value written as it is
BodyTexts ==
    { DatabaseEncryption_Encrypt([serverKey |-> StoreKey], <<118, 49>>,
                                 [ok |-> TRUE, seed |-> 5]).text,
      DatabaseEncryption_Encrypt([serverKey |-> ForeignKey], <<118, 49>>,
                                 [ok |-> TRUE, seed |-> 5]).text,
      <<118, 49>> }

\* the error a transaction body returns when it fails
BodyErr == Err("body failed")

\* how many calls on its handle a transaction body makes at most
MaxTxSteps == 3

\* a store opened on an empty data directory; the cipher bench is unused
StoreInit ==
    /\ db = Some([encryption |-> NewDatabaseEncryption(StoreKey).inst])
    /\ table = {}
    /\ tx = None
    /\ mu = [writer |-> 0, readers |-> {}]
    /\ pc = [g \in Goroutines |-> IdlePc]
    /\ ret = NoRet
    /\ plain = {}
    /\ now = 0
    /\ cachedMachineID = <<>>
    /\ machineIDMutex = [writer |-> 0, readers |-> {}]
    /\ registry = [content |-> None, denied |-> FALSE]
    /\ host = NoHost
    /\ idpc = [g \in Goroutines |-> "idle"]
    /\ idret = NoIdRet
    /\ idlog = NoIdLog
    /\ ce = [s \in Slots |-> None]
    /\ de = [s \in Slots |-> None]
    /\ env = None
    /\ cres = NoResult
    /\ dataDir = [exists |-> TRUE, dbFile |-> TRUE]
    /\ mgr = None
    /\ cfgs = <<>>
    /\ mmu = [writer |-> 0, readers |-> {}]
    /\ cfgFile = [exists |-> FALSE, target |-> None, temp |-> None]
    /\ cpc = [g \in Goroutines |-> IdleCpc]
    /\ cret = NoCret
    /\ forged = "none"
    /\ keyBuf = <<>>
    /\ deRef = [s \in Slots |-> None]
    /\ prog = None
    /\ srv = None
    /\ app = NoApp
    /\ resp = None

----------------------------------------------------------------------------
(* The plain map: what the writes so far were meant to store, key by key.
   An entry also tells whether its value replaced an earlier one (sets = 2)
   or created the key (sets = 1). *)

PlainWithout(keys) == { e \in plain : e.key \notin keys }

PlainAfterSet(key, value) ==
    PlainWithout({key})
        \cup { [key |-> key, value |-> value,
                sets |-> IF \E e \in plain : e.key = key THEN 2 ELSE 1] }

\* what a committed transaction body meant to store: the body wrote puts
\* (key, text) and deleted dels; every text of BodyTexts stands for "v1"
PlainAfterCommit(puts, dels) ==
    PlainWithout(dels \cup { e[1] : e \in puts })
        \cup { [key |-> e[1], value |-> <<118, 49>>, sets |-> 1] : e \in puts }

----------------------------------------------------------------------------
(* db.mu *)

\* db.mu.RLock() returns
RLock(g) ==
    /\ mu.writer = 0
    /\ mu' = [mu EXCEPT !.readers = @ \cup {g}]

Lock_AsRLock(g) ==
    /\ mu.writer = 0
    /\ mu' = [mu EXCEPT !.writer = g]

\* db.mu.Lock() returns
Lock(g) ==
    /\ mu.writer = 0
    /\ mu.readers = {}
    /\ mu' = [mu EXCEPT !.writer = g]

\* the deferred db.mu.RUnlock() / db.mu.Unlock()
RUnlock(g) == mu' = [mu EXCEPT !.readers = @ \ {g}]
Unlock(g) == mu' = [mu EXCEPT !.writer = 0]

Enter(g, op, key, val) ==
    /\ IsSome(db)
    /\ pc[g].op = "idle"
    /\ pc' = [pc EXCEPT ![g] = [IdlePc EXCEPT !.op = op, !.key = key, !.val = val]]

Leave(g) == pc' = [pc EXCEPT ![g] = IdlePc]

Returned(g, fields) ==
    ret' = [f \in DOMAIN NoRet |->
              IF f \in DOMAIN fields THEN fields[f]
              ELSE IF f = "g" THEN g
              ELSE IF f = "op" THEN pc[g].op
              ELSE IF f = "key" THEN pc[g].key
              ELSE IF f = "val" THEN pc[g].val
              ELSE NoRet[f]]

----------------------------------------------------------------------------
(* Store calls: each takes the lock in one step and runs to its return,
   releasing the lock, in the next *)

CallGetSetting(g, key) ==
    /\ Enter(g, "GetSetting", key, <<>>)
    /\ RLock(g)
    /\ UNCHANGED <<db, table, tx, ret, plain, now>>
    /\ UNCHANGED cipherVars
    /\ UNCHANGED idVars
    /\ UNCHANGED appVars

DoGetSetting(g) ==
    /\ pc[g].op = "GetSetting"
    /\ \E r \in { GetSetting(Val(db), table, pc[g].key) } :
           Returned(g, [err |-> r.err, out |-> r.out])
    /\ RUnlock(g)
    /\ Leave(g)
    /\ UNCHANGED <<db, table, tx, plain, now>>
    /\ UNCHANGED cipherVars
    /\ UNCHANGED idVars
    /\ UNCHANGED appVars

CallSetSetting(g, key, value) ==
    /\ Enter(g, "SetSetting", key, value)
    /\ Lock(g)
    /\ UNCHANGED <<db, table, tx, ret, plain, now>>
    /\ UNCHANGED cipherVars
    /\ UNCHANGED idVars
    /\ UNCHANGED appVars

DoSetSetting(g) ==
    /\ pc[g].op = "SetSetting"
    /\ \E rnd \in StoreRandOutcomes :
         \E r \in { SetSetting(Val(db), table, pc[g].key, pc[g].val, rnd, now) } :
           /\ table' = r.rows
           /\ Returned(g, [err |-> r.err])
           /\ plain' = IF r.err = Nil THEN PlainAfterSet(pc[g].key, pc[g].val) ELSE plain
    /\ Unlock(g)
    /\ Leave(g)
    /\ UNCHANGED <<db, tx, now>>
    /\ UNCHANGED cipherVars
    /\ UNCHANGED idVars
    /\ UNCHANGED appVars

CallDeleteSetting(g, key) ==
    /\ Enter(g, "DeleteSetting", key, <<>>)
    /\ Lock(g)
    /\ UNCHANGED <<db, table, tx, ret, plain, now>>
    /\ UNCHANGED cipherVars
    /\ UNCHANGED idVars
    /\ UNCHANGED appVars

DoDeleteSetting(g) ==
    /\ pc[g].op = "DeleteSetting"
    /\ \E r \in { DeleteSetting(table, pc[g].key) } :
           /\ table' = r.rows
           /\ Returned(g, [err |-> r.err])
           /\ plain' = IF r.err = Nil THEN PlainWithout({pc[g].key}) ELSE plain
    /\ Unlock(g)
    /\ Leave(g)
    /\ UNCHANGED <<db, tx, now>>
    /\ UNCHANGED cipherVars
    /\ UNCHANGED idVars
    /\ UNCHANGED appVars

CallGetAllSettings(g) ==
    /\ Enter(g, "GetAllSettings", <<>>, <<>>)
    /\ RLock(g)
    /\ UNCHANGED <<db, table, tx, ret, plain, now>>
    /\ UNCHANGED cipherVars
    /\ UNCHANGED idVars
    /\ UNCHANGED appVars

DoGetAllSettings(g) ==
    /\ pc[g].op = "GetAllSettings"
    /\ \E r \in { GetAllSettings(Val(db), table) } :
           Returned(g, [err |-> r.err, all |-> r.all])
    /\ RUnlock(g)
    /\ Leave(g)
    /\ UNCHANGED <<db, table, tx, plain, now>>
    /\ UNCHANGED cipherVars
    /\ UNCHANGED idVars
    /\ UNCHANGED appVars

CallSettingExists(g, key) ==
    /\ Enter(g, "SettingExists", key, <<>>)
    /\ RLock(g)
    /\ UNCHANGED <<db, table, tx, ret, plain, now>>
    /\ UNCHANGED cipherVars
    /\ UNCHANGED idVars
    /\ UNCHANGED appVars

DoSettingExists(g) ==
    /\ pc[g].op = "SettingExists"
    /\ \E r \in { SettingExists(table, pc[g].key) } :
           Returned(g, [err |-> r.err, flag |-> r.flag])
    /\ RUnlock(g)
    /\ Leave(g)
    /\ UNCHANGED <<db, table, tx, plain, now>>
    /\ UNCHANGED cipherVars
    /\ UNCHANGED idVars
    /\ UNCHANGED appVars

ReadNext ==
    \/ \E g \in Goroutines, k \in SettingKeys : CallGetSetting(g, k)
    \/ \E g \in Goroutines : DoGetSetting(g)
    \/ \E g \in Goroutines : CallGetAllSettings(g)
    \/ \E g \in Goroutines : DoGetAllSettings(g)
    \/ \E g \in Goroutines, k \in SettingKeys : CallSettingExists(g, k)
    \/ \E g \in Goroutines : DoSettingExists(g)

WriteNext ==
    \/ \E g \in Goroutines, k \in SettingKeys, v \in SettingValues : CallSetSetting(g, k, v)
    \/ \E g \in Goroutines : DoSetSetting(g)
    \/ \E g \in Goroutines, k \in SettingKeys : CallDeleteSetting(g, k)
    \/ \E g \in Goroutines : DoDeleteSetting(g)

KVNext == ReadNext \/ WriteNext

----------------------------------------------------------------------------
(* DB.Transaction: the call, the calls the body makes on its *sql.Tx, and
   the end of the body *)

\* goroutine g returns from its call of op in this step
Finishes(g, op) == pc[g].op = op /\ pc'[g].op = "idle"

\* Transaction that begins without taking db.mu
CallTransaction_NoLock(g) ==
    /\ Enter(g, "Transaction", <<>>, <<>>)
    /\ tx' = Some([view |-> table, state |-> "open", base |-> table])
    /\ UNCHANGED <<db, table, mu, ret, plain, now>>
    /\ UNCHANGED cipherVars
    /\ UNCHANGED idVars
    /\ UNCHANGED appVars

\* tx: view is what the statements of the transaction see, state tells
\* whether the handle is still usable, base is the table as Begin found it
CallTransaction(g) ==
    /\ Enter(g, "Transaction", <<>>, <<>>)
    /\ Lock(g)
    \* db.conn.Begin()
    /\ tx' = Some([view |-> table, state |-> "open", base |-> table])
    /\ UNCHANGED <<db, table, ret, plain, now>>
    /\ UNCHANGED cipherVars
    /\ UNCHANGED idVars
    /\ UNCHANGED appVars

InBody(g) ==
    /\ pc[g].op = "Transaction"
    /\ pc[g].n < MaxTxSteps
    /\ IsSome(tx)

\* tx.Exec("INSERT INTO settings (key, value) VALUES (?, ?)", key, text)
TxExecInsert(g, key, text) ==
    /\ InBody(g)
    /\ IF Val(tx).state # "open"
       THEN /\ pc' = [pc EXCEPT ![g].n = @ + 1]
            /\ UNCHANGED tx
       ELSE \E r \in { SqlInsert(Val(tx).view, key, text, now) } :
              /\ tx' = Some([Val(tx) EXCEPT !.view = r.rows])
              /\ pc' = [pc EXCEPT
                          ![g].n = @ + 1,
                          ![g].w = IF r.err = Nil THEN @ + 1 ELSE @,
                          ![g].puts = IF r.err = Nil THEN @ \cup {<<key, text>>} ELSE @,
                          ![g].dels = IF r.err = Nil THEN @ \ {key} ELSE @]
    /\ UNCHANGED <<db, table, mu, ret, plain, now>>
    /\ UNCHANGED cipherVars
    /\ UNCHANGED idVars
    /\ UNCHANGED appVars

\* tx.Exec("DELETE FROM settings WHERE key = ?", key)
TxExecDelete(g, key) ==
    /\ InBody(g)
    /\ IF Val(tx).state # "open"
       THEN /\ pc' = [pc EXCEPT ![g].n = @ + 1]
            /\ UNCHANGED tx
       ELSE \E r \in { SqlDelete(Val(tx).view, key) } :
              /\ tx' = Some([Val(tx) EXCEPT !.view = r.rows])
              /\ pc' = [pc EXCEPT
                          ![g].n = @ + 1,
                          ![g].w = IF r.affected > 0 THEN @ + 1 ELSE @,
                          ![g].puts = IF r.affected > 0
                                      THEN { e \in @ : e[1] # key } ELSE @,
                          ![g].dels = IF r.affected > 0 THEN @ \cup {key} ELSE @]
    /\ UNCHANGED <<db, table, mu, ret, plain, now>>
    /\ UNCHANGED cipherVars
    /\ UNCHANGED idVars
    /\ UNCHANGED appVars

\* the body calls tx.Commit() itself
TxCommit(g) ==
    /\ InBody(g)
    /\ pc' = [pc EXCEPT ![g].n = @ + 1]
    /\ IF Val(tx).state = "open"
       THEN /\ table' = Val(tx).view
            /\ tx' = Some([Val(tx) EXCEPT !.state = "committed"])
            /\ plain' = PlainAfterCommit(pc[g].puts, pc[g].dels)
       ELSE UNCHANGED <<table, tx, plain>>
    /\ UNCHANGED <<db, mu, ret, now>>
    /\ UNCHANGED cipherVars
    /\ UNCHANGED idVars
    /\ UNCHANGED appVars

\* the body calls tx.Rollback() itself
TxRollback(g) ==
    /\ InBody(g)
    /\ pc' = [pc EXCEPT ![g].n = @ + 1]
    /\ IF Val(tx).state = "open"
       THEN tx' = Some([Val(tx) EXCEPT !.state = "rolledback"])
       ELSE UNCHANGED tx
    /\ UNCHANGED <<db, table, mu, ret, plain, now>>
    /\ UNCHANGED cipherVars
    /\ UNCHANGED idVars
    /\ UNCHANGED appVars

\* the body ends, and Transaction with it
TxEnd(g, how, e) ==
    /\ pc[g].op = "Transaction"
    /\ IsSome(tx)
    /\ \E r \in { Transaction_End(Val(tx), table, how, e) } :
           /\ table' = r.rows
           /\ tx' = r.tx
           /\ Returned(g, [err |-> r.err, panicked |-> r.panicked, w |-> pc[g].w,
                           ended |-> Val(tx).state # "open",
                           bodyErr |-> IF how = "return" THEN e ELSE Nil])
           /\ plain' = IF r.rows # table
                       THEN PlainAfterCommit(pc[g].puts, pc[g].dels)
                       ELSE plain
    /\ Unlock(g)
    /\ Leave(g)
    /\ UNCHANGED <<db, now>>
    /\ UNCHANGED cipherVars
    /\ UNCHANGED idVars
    /\ UNCHANGED appVars

TxReturn(g, e) == TxEnd(g, "return", e)

TxPanic(g) == TxEnd(g, "panic", Nil)

TransactionNext ==
    \/ \E g \in Goroutines : CallTransaction(g)
    \/ \E g \in Goroutines, k \in SettingKeys, t \in BodyTexts : TxExecInsert(g, k, t)
    \/ \E g \in Goroutines, k \in SettingKeys : TxExecDelete(g, k)
    \/ \E g \in Goroutines : TxCommit(g)
    \/ \E g \in Goroutines : TxRollback(g)
    \/ \E g \in Goroutines, e \in {Nil, BodyErr} : TxReturn(g, e)
    \/ \E g \in Goroutines : TxPanic(g)

\* the store under SetSetting, DeleteSetting and the three reads
SpecKV == StoreInit /\ [][KVNext]_vars

TxNext == ReadNext \/ TransactionNext

\* the store under Transaction and the three reads
SpecTx == StoreInit /\ [][TxNext]_vars

----------------------------------------------------------------------------
(* Closing the store and opening it again on the same data directory: the
   settings table is in the database file and outlives the DB value *)

\* os.MkdirAll(dataDir, 0755): nothing to do when the directory is there
MkdirAll(dir, ok) ==
    IF dir.exists THEN [dir |-> dir, err |-> Nil]
    ELSE IF ok THEN [dir |-> [dir EXCEPT !.exists = TRUE], err |-> Nil]
    ELSE [dir |-> dir, err |-> Err("mkdir: permission denied")]

\* New with the directory made before the key is looked at
New_MkdirFirst(serverKey, dir, mkdirOk) ==
    LET made == MkdirAll(dir, mkdirOk)
    IN  IF made.err # Nil
        THEN [db |-> None, dir |-> made.dir,
              err |-> Wrap("failed to create data directory", made.err)]
        ELSE IF Len(serverKey) # 32
        THEN [db |-> None, dir |-> made.dir,
              err |-> Err("server key must be exactly 32 bytes")]
        ELSE [db |-> Some([encryption |-> NewDatabaseEncryption(serverKey).inst]),
              dir |-> [made.dir EXCEPT !.dbFile = TRUE], err |-> Nil]

\* New(cfg) with cfg.ServerKey = serverKey on the data directory dir; the
\* first statement run on the connection creates the database file
New(serverKey, dir, mkdirOk) ==
    IF Len(serverKey) # 32
    THEN [db |-> None, dir |-> dir,
          err |-> Err("server key must be exactly 32 bytes")]
    ELSE \* security.NewDatabaseEncryption(cfg.ServerKey)
         LET enc == NewDatabaseEncryption(serverKey)
         IN  IF enc.err # Nil
             THEN [db |-> None, dir |-> dir,
                   err |-> Wrap("failed to create database encryption", enc.err)]
             ELSE LET made == MkdirAll(dir, mkdirOk)
                  IN  IF made.err # Nil
                      THEN [db |-> None, dir |-> made.dir,
                            err |-> Wrap("failed to create data directory", made.err)]
                      ELSE [db |-> Some([encryption |-> enc.inst]),
                            dir |-> [made.dir EXCEPT !.dbFile = TRUE],
                            err |-> Nil]

\* the server keys a store is opened with: the first key, another key, and a
\* key of 16 bytes
OpenKeys == { StoreKey, ForeignKey, RandBytes(1, 16) }

\* db.Close(): takes db.mu, closes the connection, releases db.mu; the
\* callers drop the closed DB
CloseDB(g) ==
    /\ IsSome(db)
    /\ pc[g].op = "idle"
    /\ mu.writer = 0
    /\ mu.readers = {}
    /\ db' = None
    /\ Returned(g, [op |-> "Close"])
    /\ UNCHANGED <<table, tx, mu, pc, plain, now>>
    /\ UNCHANGED cipherVars
    /\ UNCHANGED idVars
    /\ UNCHANGED appVars

\* database.New on the data directory; CREATE TABLE IF NOT EXISTS keeps the
\* rows that are there
OpenDB(g, serverKey) ==
    /\ db = None
    /\ pc[g].op = "idle"
    /\ \E mkdirOk \in BOOLEAN :
         \E r \in { New(serverKey, dataDir, mkdirOk) } :
           /\ db' = r.db
           /\ dataDir' = r.dir
           /\ Returned(g, [op |-> "New", err |-> r.err])
    /\ UNCHANGED <<table, tx, mu, pc, plain, now>>
    /\ UNCHANGED cipherVars
    /\ UNCHANGED idVars
    /\ UNCHANGED restVars

\* os.RemoveAll(tmpDir) after db.Close(): the directory goes with all that
\* is in it
RemoveAll(g) ==
    /\ db = None
    /\ pc[g].op = "idle"
    /\ dataDir.exists
    /\ dataDir' = [exists |-> FALSE, dbFile |-> FALSE]
    /\ table' = {}
    /\ plain' = {}
    /\ Returned(g, [op |-> "RemoveAll"])
    /\ UNCHANGED <<db, tx, mu, pc, now>>
    /\ UNCHANGED cipherVars
    /\ UNCHANGED idVars
    /\ UNCHANGED restVars

\* the goroutine that owns the store: it opens it, uses it and closes it
Owners == { 1 }

ReopenNext ==
    \/ \E g \in Owners, k \in SettingKeys, v \in SettingValues : CallSetSetting(g, k, v)
    \/ \E g \in Owners : DoSetSetting(g)
    \/ \E g \in Owners, k \in SettingKeys : CallDeleteSetting(g, k)
    \/ \E g \in Owners : DoDeleteSetting(g)
    \/ \E g \in Owners, k \in SettingKeys : CallGetSetting(g, k)
    \/ \E g \in Owners : DoGetSetting(g)
    \/ \E g \in Owners : CallGetAllSettings(g)
    \/ \E g \in Owners : DoGetAllSettings(g)
    \/ \E g \in Owners : CloseDB(g)
    \/ \E g \in Owners, k \in OpenKeys : OpenDB(g, k)

\* the settings calls on a store that is closed and opened again, with the
\* same key or another
SpecReopen == StoreInit /\ [][ReopenNext]_vars

----------------------------------------------------------------------------
(* The store while the clock of the database runs *)

MaxClock == 3

\* a second passes: CURRENT_TIMESTAMP counts whole seconds
Tick ==
    /\ now < MaxClock
    /\ now' = now + 1
    /\ UNCHANGED <<db, table, tx, mu, pc, ret, plain>>
    /\ UNCHANGED cipherVars
    /\ UNCHANGED idVars
    /\ UNCHANGED appVars

ClockNext ==
    \/ \E g \in Owners, k \in SettingKeys, v \in SettingValues : CallSetSetting(g, k, v)
    \/ \E g \in Owners : DoSetSetting(g)
    \/ \E g \in Owners, k \in SettingKeys : CallDeleteSetting(g, k)
    \/ \E g \in Owners : DoDeleteSetting(g)
    \/ Tick

\* settings written and deleted as time goes by
SpecClock == StoreInit /\ [][ClockNext]_vars


----------------------------------------------------------------------------
(* All the store's calls together, on one key: two goroutines that set,
   delete, run transactions and read *)

\* "k1"
OneKey == { <<107, 49>> }

\* "v1"
OneValue == { <<118, 49>> }

AllCallsNext ==
    \/ \E g \in Goroutines, k \in OneKey : CallGetSetting(g, k)
    \/ \E g \in Goroutines : DoGetSetting(g)
    \/ \E g \in Goroutines : CallGetAllSettings(g)
    \/ \E g \in Goroutines : DoGetAllSettings(g)
    \/ \E g \in Goroutines, k \in OneKey : CallSettingExists(g, k)
    \/ \E g \in Goroutines : DoSettingExists(g)
    \/ \E g \in Goroutines, k \in OneKey, v \in OneValue : CallSetSetting(g, k, v)
    \/ \E g \in Goroutines : DoSetSetting(g)
    \/ \E g \in Goroutines, k \in OneKey : CallDeleteSetting(g, k)
    \/ \E g \in Goroutines : DoDeleteSetting(g)
    \/ \E g \in Goroutines : CallTransaction(g)
    \/ \E g \in Goroutines, k \in OneKey, t \in OneValue : TxExecInsert(g, k, t)
    \/ \E g \in Goroutines, k \in OneKey : TxExecDelete(g, k)
    \/ \E g \in Goroutines : TxCommit(g)
    \/ \E g \in Goroutines : TxRollback(g)
    \/ \E g \in Goroutines, e \in {Nil, BodyErr} : TxReturn(g, e)
    \/ \E g \in Goroutines : TxPanic(g)

SpecAllCalls == StoreInit /\ [][AllCallsNext]_vars

----------------------------------------------------------------------------
(* Opening the store: keys of every size, a data directory that may be absent *)

\* no store yet and no data directory
OpenInit ==
    /\ db = None
    /\ table = {}
    /\ tx = None
    /\ mu = [writer |-> 0, readers |-> {}]
    /\ pc = [g \in Goroutines |-> IdlePc]
    /\ ret = NoRet
    /\ plain = {}
    /\ now = 0
    /\ dataDir = [exists |-> FALSE, dbFile |-> FALSE]
    /\ ce = [s \in Slots |-> None]
    /\ de = [s \in Slots |-> None]
    /\ env = None
    /\ cres = NoResult
    /\ cachedMachineID = <<>>
    /\ machineIDMutex = [writer |-> 0, readers |-> {}]
    /\ registry = [content |-> None, denied |-> FALSE]
    /\ host = NoHost
    /\ idpc = [g \in Goroutines |-> "idle"]
    /\ idret = NoIdRet
    /\ idlog = NoIdLog
    /\ mgr = None
    /\ cfgs = <<>>
    /\ mmu = [writer |-> 0, readers |-> {}]
    /\ cfgFile = [exists |-> FALSE, target |-> None, temp |-> None]
    /\ cpc = [g \in Goroutines |-> IdleCpc]
    /\ cret = NoCret
    /\ forged = "none"
    /\ keyBuf = <<>>
    /\ deRef = [s \in Slots |-> None]
    /\ prog = None
    /\ srv = None
    /\ app = NoApp
    /\ resp = None

\* the second slot of the cipher bench stays empty here
OneSlot == { 1 }

OpenNext ==
    \/ \E g \in Owners, k \in ServerKeys : OpenDB(g, k)
    \/ \E g \in Owners : CloseDB(g)
    \/ \E g \in Owners : RemoveAll(g)
    \/ \E g \in Owners, k \in OneKey, v \in OneValue : CallSetSetting(g, k, v)
    \/ \E g \in Owners : DoSetSetting(g)
    \/ \E g \in Owners, k \in OneKey : CallGetSetting(g, k)
    \/ \E g \in Owners : DoGetSetting(g)
    \/ \E s \in OneSlot, k \in ServerKeys : CNewDatabaseEncryption(s, k)

\* stores opened with keys of every size on a directory that is made,
\* used and removed, and database ciphers made from the same keys
SpecOpen == OpenInit /\ [][OpenNext]_vars

----------------------------------------------------------------------------
(* GetMachineID, called by the goroutines of one process, and the restart
   of the process *)

IdInit ==
    /\ cachedMachineID = << >>
    /\ machineIDMutex = [writer |-> 0, readers |-> {}]
    /\ registry \in Registries
    /\ host \in Hosts
    /\ idpc = [g \in Goroutines |-> "idle"]
    /\ idret = NoIdRet
    /\ idlog = NoIdLog
    /\ ce = [s \in Slots |-> None]
    /\ de = [s \in Slots |-> None]
    /\ env = None
    /\ cres = NoResult
    /\ db = None
    /\ table = {}
    /\ tx = None
    /\ mu = [writer |-> 0, readers |-> {}]
    /\ pc = [g \in Goroutines |-> IdlePc]
    /\ ret = NoRet
    /\ plain = {}
    /\ now = 0
    /\ dataDir = [exists |-> FALSE, dbFile |-> FALSE]
    /\ mgr = None
    /\ cfgs = <<>>
    /\ mmu = [writer |-> 0, readers |-> {}]
    /\ cfgFile = [exists |-> FALSE, target |-> None, temp |-> None]
    /\ cpc = [g \in Goroutines |-> IdleCpc]
    /\ cret = NoCret
    /\ forged = "none"
    /\ keyBuf = <<>>
    /\ deRef = [s \in Slots |-> None]
    /\ prog = None
    /\ srv = None
    /\ app = NoApp
    /\ resp = None

\* a count that stops at 2
Bump(n) == IF n < 2 THEN n + 1 ELSE n

\* the log after a call that returned r
Logged(r) ==
    [idlog EXCEPT
       !.derived = IF r.from = "derived" THEN Bump(@) ELSE @,
       !.saves = IF r.from = "derived" THEN Bump(@) ELSE @,
       !.cacheWrites = IF r.from \in {"registry", "derived"} THEN Bump(@) ELSE @,
       !.returned = IF r.err = Nil THEN @ \cup {r.val} ELSE @]

\* machineIDMutex.RLock() returns
IdCall(g) ==
    /\ idpc[g] = "idle"
    /\ machineIDMutex.writer = 0
    /\ machineIDMutex' = [machineIDMutex EXCEPT !.readers = @ \cup {g}]
    /\ idpc' = [idpc EXCEPT ![g] = "rlocked"]
    /\ UNCHANGED <<cachedMachineID, registry, host, idret, idlog>>
    /\ UNCHANGED cipherVars
    /\ UNCHANGED storeVars
    /\ UNCHANGED appVars

\* the check of the cache under the read lock, and RUnlock
IdFastPath(g) ==
    /\ idpc[g] = "rlocked"
    /\ machineIDMutex' = [machineIDMutex EXCEPT !.readers = @ \ {g}]
    /\ IF cachedMachineID # << >>
       THEN /\ idpc' = [idpc EXCEPT ![g] = "idle"]
            /\ idret' = [g |-> g, val |-> cachedMachineID, err |-> Nil, from |-> "cache"]
            /\ idlog' = Logged([val |-> cachedMachineID, err |-> Nil, from |-> "cache"])
       ELSE /\ idpc' = [idpc EXCEPT ![g] = "unlocked"]
            /\ UNCHANGED <<idret, idlog>>
    /\ UNCHANGED <<cachedMachineID, registry, host>>
    /\ UNCHANGED cipherVars
    /\ UNCHANGED storeVars
    /\ UNCHANGED appVars

\* machineIDMutex.Lock() returns
IdLock(g) ==
    /\ idpc[g] = "unlocked"
    /\ machineIDMutex.writer = 0
    /\ machineIDMutex.readers = {}
    /\ machineIDMutex' = [machineIDMutex EXCEPT !.writer = g]
    /\ idpc' = [idpc EXCEPT ![g] = "locked"]
    /\ UNCHANGED <<cachedMachineID, registry, host, idret, idlog>>
    /\ UNCHANGED cipherVars
    /\ UNCHANGED storeVars
    /\ UNCHANGED appVars

\* the rest of GetMachineID under the write lock, and the deferred Unlock
IdSlowPath(g) ==
    /\ idpc[g] = "locked"
    /\ \E saveOk \in BOOLEAN :
         \E r \in { GetMachineID_Locked(cachedMachineID, registry, host, saveOk) } :
           /\ cachedMachineID' = r.cache
           /\ registry' = r.reg
           /\ idret' = [g |-> g, val |-> r.val, err |-> r.err, from |-> r.from]
           /\ idlog' = Logged(r)
    /\ machineIDMutex' = [machineIDMutex EXCEPT !.writer = 0]
    /\ idpc' = [idpc EXCEPT ![g] = "idle"]
    /\ UNCHANGED host
    /\ UNCHANGED cipherVars
    /\ UNCHANGED storeVars
    /\ UNCHANGED appVars

\* the process ends and a new one starts on the same host: the package
\* variables are as new, the persisted machine ID is what it was
Restart ==
    /\ cachedMachineID' = << >>
    /\ machineIDMutex' = [writer |-> 0, readers |-> {}]
    /\ idpc' = [g \in Goroutines |-> "idle"]
    /\ idlog' = [NoIdLog EXCEPT !.before = idlog.before \cup idlog.returned]
    /\ UNCHANGED <<registry, host, idret>>
    /\ UNCHANGED cipherVars
    /\ UNCHANGED storeVars
    /\ UNCHANGED appVars

IdNext ==
    \/ \E g \in Goroutines : IdCall(g)
    \/ \E g \in Goroutines : IdFastPath(g)
    \/ \E g \in Goroutines : IdLock(g)
    \/ \E g \in Goroutines : IdSlowPath(g)
    \/ Restart

SpecMachineID == IdInit /\ [][IdNext]_vars

----------------------------------------------------------------------------
(* The config Manager (package config): the configuration of the service in
   one encrypted file, which Save replaces as a whole.  A Config is known by
   its address: the Manager and its callers hold pointers. *)

DefaultPort == 8080

\* the fields of a Config that the model follows: Port and Encrypted
getDefaultConfig == [Port |-> DefaultPort, Encrypted |-> FALSE]

\* the decimal digits of a number, and back
RECURSIVE Itoa(_)
Itoa(n) == IF n < 10 THEN <<48 + n>> ELSE Itoa(n \div 10) \o <<48 + (n % 10)>>

RECURSIVE Atoi(_)
Atoi(s) ==
    IF s = <<>> THEN 0
    ELSE 10 * Atoi(SubSeq(s, 1, Len(s) - 1)) + (s[Len(s)] - 48)

\* json.MarshalIndent(config, "", "  "), in short: {port,t} or {port,f}
MarshalIndent(c) ==
    <<123>> \o Itoa(c.Port) \o <<44, IF c.Encrypted THEN 116 ELSE 102, 125>>

\* json.Unmarshal(data, &config)
Unmarshal(b) ==
    LET n == Len(b)
        wellFormed ==
            /\ n >= 5
            /\ b[1] = 123
            /\ b[n] = 125
            /\ b[n - 2] = 44
            /\ b[n - 1] \in {116, 102}
            /\ \A i \in 2..(n - 3) : b[i] \in 48..57
    IN  IF wellFormed
        THEN [cfg |-> [Port |-> Atoi(SubSeq(b, 2, n - 3)),
                       Encrypted |-> b[n - 1] = 116],
              err |-> Nil]
        ELSE [cfg |-> [Port |-> 0, Encrypted |-> FALSE],
              err |-> Err("invalid character")]

NewManager(machineID) ==
    IF machineID = <<>>
    THEN [m |-> None, err |-> Err("machine ID cannot be empty")]
    ELSE LET enc == NewConfigEncryption(machineID)
         IN  IF enc.err # Nil
             THEN [m |-> None,
                   err |-> Wrap("failed to create config encryption", enc.err)]
             ELSE [m |-> Some([encryption |-> enc.inst,
                               configPath |-> "POSService/config.enc",
                               machineID |-> machineID,
                               config |-> 0]),
                   err |-> Nil]

\* the name under which Save writes the new content: m.configPath + ".tmp"
TempPath_Target == "target"
TempPath == "temp"

\* os.Rename within the config directory: the name "to" gets the file, at once
Rename(files, from, to) ==
    IF from = to THEN files
    ELSE [files EXCEPT ![to] = files[from], ![from] = None]

\* Load that falls back on the defaults when the file cannot be opened
Load_DefaultsOnError(m, files, readOk) ==
    IF files.target = None
    THEN [cfg |-> Some(getDefaultConfig), err |-> Nil]
    ELSE IF ~readOk
    THEN [cfg |-> None,
          err |-> Wrap("failed to read config file", Err("read: input/output error"))]
    ELSE LET opened == ConfigEncryption_Decrypt(Val(m.encryption), Val(files.target))
         IN  IF opened.err # Nil
             THEN [cfg |-> Some(getDefaultConfig), err |-> Nil]
             ELSE LET parsed == Unmarshal(opened.pt)
                  IN  IF parsed.err # Nil
                      THEN [cfg |-> None,
                            err |-> Wrap("failed to parse config JSON", parsed.err)]
                      ELSE [cfg |-> Some([parsed.cfg EXCEPT !.Encrypted = TRUE]),
                            err |-> Nil]

\* Manager.Load, from the os.Stat on: the Config it makes, if any
Load(m, files, readOk) ==
    IF files.target = None
    THEN [cfg |-> Some(getDefaultConfig), err |-> Nil]
    ELSE IF ~readOk
    THEN [cfg |-> None,
          err |-> Wrap("failed to read config file", Err("read: input/output error"))]
    ELSE LET opened == ConfigEncryption_Decrypt(Val(m.encryption), Val(files.target))
         IN  IF opened.err # Nil
             THEN [cfg |-> None, err |-> Wrap("failed to decrypt config", opened.err)]
             ELSE LET parsed == Unmarshal(opened.pt)
                  IN  IF parsed.err # Nil
                      THEN [cfg |-> None,
                            err |-> Wrap("failed to parse config JSON", parsed.err)]
                      ELSE [cfg |-> Some([parsed.cfg EXCEPT !.Encrypted = TRUE]),
                            err |-> Nil]

\* Manager.Save up to the encrypted text: the directory, the flag on the
\* caller's Config, the JSON, the envelope
Save_Prepare(m, config, files, mkdirOk, rnd) ==
    LET made == MkdirAll(files, mkdirOk)
        marked == [config EXCEPT !.Encrypted = TRUE]
        sealed == ConfigEncryption_Encrypt(Val(m.encryption), MarshalIndent(marked), rnd)
    IN  IF made.err # Nil
        THEN [files |-> files, config |-> config, data |-> <<>>,
              err |-> Wrap("failed to create config directory", made.err)]
        ELSE IF sealed.err # Nil
        THEN [files |-> made.dir, config |-> marked, data |-> <<>>,
              err |-> Wrap("failed to encrypt config", sealed.err)]
        ELSE [files |-> made.dir, config |-> marked, data |-> sealed.text,
              err |-> Nil]

----------------------------------------------------------------------------
(* The calls of the Manager, step by step where a file changes *)

\* the Configs a caller makes itself
CallerConfigs == { [Port |-> 9090, Encrypted |-> FALSE] }

\* the functions handed to Update: what they set, and what they return
UpdateFuncs == { [port |-> 9090, err |-> Nil],
                 [port |-> 9090, err |-> Err("update refused")] }

\* how many Configs a process makes at most
MaxCfgs == 2

\* there is room for one more Config, counting those a Load is about to make
Room == Len(cfgs) + Cardinality({ g \in Goroutines : cpc[g].op = "Load" }) < MaxCfgs

\* what the config Manager leaves alone
outsideCfg == <<cipherVars, storeVars, idVars, dataDir, forged, lateVars, srvVars>>

\* the call returns; its deferred m.mu.Unlock() runs
MgrReturn(g, err, cfg) ==
    /\ cret' = [g |-> g, op |-> cpc[g].op, err |-> err, cfg |-> cfg]
    /\ cpc' = [cpc EXCEPT ![g] = IdleCpc]
    /\ mmu' = [mmu EXCEPT !.writer = 0]

\* config.NewManager(machineID) at the start of the process
MNew(g, machineID) ==
    /\ mgr = None
    /\ \A h \in Goroutines : cpc[h].op = "idle"
    /\ \E r \in { NewManager(machineID) } :
           /\ mgr' = r.m
           /\ cret' = [g |-> g, op |-> "NewManager", err |-> r.err, cfg |-> 0]
    /\ UNCHANGED <<cfgs, mmu, cfgFile, cpc>>
    /\ UNCHANGED outsideCfg

\* the caller makes a Config: &config.Config{...}
NewConfig(g, c) ==
    /\ cpc[g].op = "idle"
    /\ Room
    /\ cfgs' = Append(cfgs, c)
    /\ UNCHANGED <<mgr, mmu, cfgFile, cpc, cret>>
    /\ UNCHANGED outsideCfg

CallSave(g, a) ==
    /\ IsSome(mgr)
    /\ cpc[g].op = "idle"
    /\ a \in 1..Len(cfgs)
    /\ cpc' = [cpc EXCEPT ![g] = [IdleCpc EXCEPT !.op = "Save", !.at = "lock", !.cfg = a]]
    /\ UNCHANGED <<mgr, cfgs, mmu, cfgFile, cret>>
    /\ UNCHANGED outsideCfg

CallLoad(g) ==
    /\ IsSome(mgr)
    /\ cpc[g].op = "idle"
    /\ Room
    /\ cpc' = [cpc EXCEPT ![g] = [IdleCpc EXCEPT !.op = "Load", !.at = "lock"]]
    /\ UNCHANGED <<mgr, cfgs, mmu, cfgFile, cret>>
    /\ UNCHANGED outsideCfg

CallUpdate(g, fn) ==
    /\ IsSome(mgr)
    /\ cpc[g].op = "idle"
    /\ cpc' = [cpc EXCEPT ![g] = [IdleCpc EXCEPT !.op = "Update", !.at = "lock", !.fn = fn]]
    /\ UNCHANGED <<mgr, cfgs, mmu, cfgFile, cret>>
    /\ UNCHANGED outsideCfg

\* m.mu.Lock() returns: at the head of Load, of Save and of Update, and at
\* the head of the Save that Update calls
MgrLock(g) ==
    /\ cpc[g].at \in {"lock", "Save.lock"}
    /\ mmu.writer = 0
    /\ mmu.readers = {}
    /\ mmu' = [mmu EXCEPT !.writer = g]
    /\ cpc' = [cpc EXCEPT ![g].at =
                  IF cpc[g].at = "Save.lock" \/ cpc[g].op = "Save" THEN "prepare"
                  ELSE IF cpc[g].op = "Load" THEN "load"
                  ELSE "update"]
    /\ UNCHANGED <<mgr, cfgs, cfgFile, cret>>
    /\ UNCHANGED outsideCfg

\* Load under the lock
DoLoad(g) ==
    /\ cpc[g].at = "load"
    /\ \E readOk \in BOOLEAN :
         \E r \in { Load(Val(mgr), cfgFile, readOk) } :
           IF r.err = Nil
           THEN /\ cfgs' = Append(cfgs, Val(r.cfg))
                /\ mgr' = Some([Val(mgr) EXCEPT !.config = Len(cfgs) + 1])
                /\ MgrReturn(g, Nil, Len(cfgs) + 1)
           ELSE /\ MgrReturn(g, r.err, 0)
                /\ UNCHANGED <<mgr, cfgs>>
    /\ UNCHANGED cfgFile
    /\ UNCHANGED outsideCfg

\* Save: os.MkdirAll, config.Encrypted = true, MarshalIndent, Encrypt
SavePrepare(g) ==
    /\ cpc[g].at = "prepare"
    /\ \E mkdirOk \in BOOLEAN, rnd \in StoreRandOutcomes :
         \E r \in { Save_Prepare(Val(mgr), cfgs[cpc[g].cfg], cfgFile, mkdirOk, rnd) } :
           /\ cfgFile' = r.files
           /\ cfgs' = [cfgs EXCEPT ![cpc[g].cfg] = r.config]
           /\ IF r.err = Nil
              THEN /\ cpc' = [cpc EXCEPT ![g].at = "write", ![g].data = r.data]
                   /\ UNCHANGED <<mmu, cret>>
              ELSE MgrReturn(g, r.err, 0)
    /\ UNCHANGED mgr
    /\ UNCHANGED outsideCfg

\* Save: os.WriteFile(tempPath, ...) opens the file, cutting it to nothing
SaveWriteOpen(g) ==
    /\ cpc[g].at = "write"
    /\ \E ok \in BOOLEAN :
         IF ok
         THEN /\ cfgFile' = [cfgFile EXCEPT ![TempPath] = Some(<<>>)]
              /\ cpc' = [cpc EXCEPT ![g].at = "writing"]
              /\ UNCHANGED <<mmu, cret>>
         ELSE /\ MgrReturn(g, Wrap("failed to write temp config file",
                                   Err("open: permission denied")), 0)
              /\ UNCHANGED cfgFile
    /\ UNCHANGED <<mgr, cfgs>>
    /\ UNCHANGED outsideCfg

\* Save: os.WriteFile(tempPath, ...) writes the text, all of it or a part
SaveWriteData(g) ==
    /\ cpc[g].at = "writing"
    /\ \E n \in { Len(cpc[g].data), Len(cpc[g].data) \div 2 } :
         /\ cfgFile' = [cfgFile EXCEPT ![TempPath] = Some(SubSeq(cpc[g].data, 1, n))]
         /\ IF n = Len(cpc[g].data)
            THEN /\ cpc' = [cpc EXCEPT ![g].at = "rename"]
                 /\ UNCHANGED <<mmu, cret>>
            ELSE MgrReturn(g, Wrap("failed to write temp config file",
                                   Err("write: no space left on device")), 0)
    /\ UNCHANGED <<mgr, cfgs>>
    /\ UNCHANGED outsideCfg

\* Save: os.Rename(tempPath, m.configPath); m.config = config; return nil
SaveRename(g) ==
    /\ cpc[g].at = "rename"
    /\ \E ok \in BOOLEAN :
         IF ok
         THEN /\ cfgFile' = Rename(cfgFile, TempPath, "target")
              /\ mgr' = Some([Val(mgr) EXCEPT !.config = cpc[g].cfg])
              /\ MgrReturn(g, Nil, 0)
         ELSE /\ cpc' = [cpc EXCEPT ![g].at = "remove"]
              /\ UNCHANGED <<mgr, cfgFile, mmu, cret>>
    /\ UNCHANGED cfgs
    /\ UNCHANGED outsideCfg

\* Save after a Rename that failed: os.Remove(tempPath), return the error
SaveRemove(g) ==
    /\ cpc[g].at = "remove"
    /\ cfgFile' = [cfgFile EXCEPT ![TempPath] = None]
    /\ MgrReturn(g, Wrap("failed to rename config file",
                         Err("rename: access is denied")), 0)
    /\ UNCHANGED <<mgr, cfgs>>
    /\ UNCHANGED outsideCfg

\* Update under the lock: the check, updateFunc(m.config), and the call of
\* m.Save(m.config), which starts with m.mu.Lock()
DoUpdate(g) ==
    /\ cpc[g].at = "update"
    /\ IF Val(mgr).config = 0
       THEN /\ MgrReturn(g, Err("configuration not loaded"), 0)
            /\ UNCHANGED cfgs
       ELSE /\ cfgs' = [cfgs EXCEPT ![Val(mgr).config].Port = cpc[g].fn.port]
            /\ IF cpc[g].fn.err # Nil
               THEN MgrReturn(g, Wrap("failed to update config", cpc[g].fn.err), 0)
               ELSE /\ cpc' = [cpc EXCEPT ![g].at = "Save.lock",
                                          ![g].cfg = Val(mgr).config]
                    /\ UNCHANGED <<mmu, cret>>
    /\ UNCHANGED <<mgr, cfgFile>>
    /\ UNCHANGED outsideCfg

\* the process is killed at any point: the files stay as the last call that
\* returned left them
Crash ==
    /\ IsSome(mgr)
    /\ mgr' = None
    /\ cfgs' = <<>>
    /\ mmu' = [writer |-> 0, readers |-> {}]
    /\ cpc' = [g \in Goroutines |-> IdleCpc]
    /\ cret' = NoCret
    /\ UNCHANGED cfgFile
    /\ UNCHANGED outsideCfg

\* the steps of goroutine g inside the Manager
MgrStep(g) ==
    \/ MgrLock(g)
    \/ DoLoad(g)
    \/ SavePrepare(g)
    \/ SaveWriteOpen(g)
    \/ SaveWriteData(g)
    \/ SaveRename(g)
    \/ SaveRemove(g)
    \/ DoUpdate(g)

ConfigNext ==
    \/ \E g \in Owners, m \in MachineIDs : MNew(g, m)
    \/ \E g \in Owners, c \in CallerConfigs : NewConfig(g, c)
    \/ \E g \in Owners, a \in 1..MaxCfgs : CallSave(g, a)
    \/ \E g \in Owners : CallLoad(g)
    \/ \E g \in Owners, fn \in UpdateFuncs : CallUpdate(g, fn)
    \/ \E g \in Owners : MgrLock(g)
    \/ \E g \in Owners : DoLoad(g)
    \/ \E g \in Owners : SavePrepare(g)
    \/ \E g \in Owners : SaveWriteOpen(g)
    \/ \E g \in Owners : SaveWriteData(g)
    \/ \E g \in Owners : SaveRename(g)
    \/ \E g \in Owners : SaveRemove(g)
    \/ \E g \in Owners : DoUpdate(g)
    \/ Crash

ConfigInit ==
    /\ mgr = None
    /\ cfgs = <<>>
    /\ mmu = [writer |-> 0, readers |-> {}]
    /\ cfgFile = [exists |-> FALSE, target |-> None, temp |-> None]
    /\ cpc = [g \in Goroutines |-> IdleCpc]
    /\ cret = NoCret
    /\ dataDir = [exists |-> FALSE, dbFile |-> FALSE]
    /\ ce = [s \in Slots |-> None]
    /\ de = [s \in Slots |-> None]
    /\ env = None
    /\ cres = NoResult
    /\ db = None
    /\ table = {}
    /\ tx = None
    /\ mu = [writer |-> 0, readers |-> {}]
    /\ pc = [g \in Goroutines |-> IdlePc]
    /\ ret = NoRet
    /\ plain = {}
    /\ now = 0
    /\ cachedMachineID = <<>>
    /\ machineIDMutex = [writer |-> 0, readers |-> {}]
    /\ registry = [content |-> None, denied |-> FALSE]
    /\ host = NoHost
    /\ idpc = [g \in Goroutines |-> "idle"]
    /\ idret = NoIdRet
    /\ idlog = NoIdLog
    /\ forged = "none"
    /\ keyBuf = <<>>
    /\ deRef = [s \in Slots |-> None]
    /\ prog = None
    /\ srv = None
    /\ app = NoApp
    /\ resp = None

\* a process that makes a Manager, then loads, saves and updates, and may be
\* killed at any point; the calls come from one goroutine, as in
\* NewApplication
SpecConfig == ConfigInit /\ [][ConfigNext]_vars

\* the same, with every goroutine that can take a step taking one in the end
SpecConfigLive ==
    ConfigInit /\ [][ConfigNext]_vars /\ \A g \in Owners : WF_vars(MgrStep(g))

\* the two constructors that take a machine ID, on every machine ID, and
\* the config cipher at work
ConstructNext ==
    \/ \E g \in Owners, m \in MachineIDs : MNew(g, m)
    \/ Crash
    \/ \E s \in Slots, m \in MachineIDs : CNewConfigEncryption(s, m)
    \/ \E s \in Slots, p \in Plaintexts, rnd \in RandOutcomes : CConfigEncrypt(s, p, rnd)
    \/ \E s \in Slots : CConfigDecrypt(s)

SpecConstruct == ConfigInit /\ [][ConstructNext]_vars

----------------------------------------------------------------------------
(* The service Program (package service): New makes the context, Start runs
   the onStart callback in a goroutine of its own, Stop cancels the context,
   calls onStop and sleeps.  prog holds: done, whether p.ctx is cancelled;
   onStart, "nil" or what the callback does ("ok": returns nil, "err":
   returns an error, "waits": returns nil once the context is cancelled);
   onStop, "nil" or what the callback returns; worker, the goroutine that
   runs onStart ("none", "spawned", "running", "done"); inStart, for each
   goroutine whether it is in Start; startRet, what the last Start
   returned; logged, whether "Service start callback failed" was logged;
   at, for each goroutine its place in Stop (0 when it is not in Stop);
   begun and returned, the Stop calls so far; onStops, the onStop calls so
   far. *)

MaxStops == 2

\* what Stop does, in the order of the code
StopSteps_OnStopFirst == <<"onStop", "cancel", "sleep">>
StopSteps == <<"cancel", "onStop", "sleep">>

outsideProg == <<cipherVars, storeVars, idVars, dataDir, cfgVars, forged, keyBuf, deRef,
                 srvVars>>

\* service.New(cfg): context.WithCancel(context.Background()), the callbacks
\* (when service.New or svc.Logger fails, New returns no Program)
ProgNew(onStart, onStop) ==
    /\ prog = None
    /\ prog' = Some([done |-> FALSE, onStart |-> onStart, onStop |-> onStop,
                     worker |-> "none", inStart |-> [g \in Goroutines |-> FALSE],
                     startRet |-> None, logged |-> FALSE,
                     at |-> [g \in Goroutines |-> 0],
                     begun |-> 0, returned |-> 0, onStops |-> 0])
    /\ UNCHANGED outsideProg

\* Program.Start, up to the go statement:
\* if p.onStart != nil { go func() { ... p.onStart(p.ctx) ... }() }
ProgStart(g) ==
    /\ IsSome(prog)
    /\ Val(prog).at[g] = 0
    /\ ~Val(prog).inStart[g]
    /\ Val(prog).worker = "none"
    /\ prog' = Some([Val(prog) EXCEPT
                         !.inStart[g] = TRUE,
                         !.worker = IF Val(prog).onStart = "nil" THEN "none"
                                    ELSE "spawned"])
    /\ UNCHANGED outsideProg

\* the end of Start: when it may return, and what
Start_Return_Waits(p) ==
    [ready |-> p.worker \in {"none", "done"},
     err |-> IF p.logged THEN Err("start callback failed") ELSE Nil]

Start_Return(p) == [ready |-> TRUE, err |-> Nil]

\* Program.Start: return nil
StartReturn(g) ==
    /\ IsSome(prog)
    /\ Val(prog).inStart[g]
    /\ Start_Return(Val(prog)).ready
    /\ prog' = Some([Val(prog) EXCEPT
                         !.inStart[g] = FALSE,
                         !.startRet = Some(Start_Return(Val(prog)).err)])
    /\ UNCHANGED outsideProg

\* the goroutine of Start gets to run: it calls p.onStart(p.ctx)
WorkerInvoke ==
    /\ IsSome(prog)
    /\ Val(prog).worker = "spawned"
    /\ prog' = Some([Val(prog) EXCEPT !.worker = "running"])
    /\ UNCHANGED outsideProg

\* onStart returns of its own accord; an error goes to p.logger.Errorf
WorkerReturns ==
    /\ IsSome(prog)
    /\ Val(prog).worker = "running"
    /\ Val(prog).onStart \in {"ok", "err"}
    /\ prog' = Some([Val(prog) EXCEPT !.worker = "done",
                                      !.logged = (Val(prog).onStart = "err")])
    /\ UNCHANGED outsideProg

\* the onStart callback sees <-ctx.Done() and returns
WorkerSeesDone ==
    /\ IsSome(prog)
    /\ Val(prog).worker = "running"
    /\ Val(prog).onStart = "waits"
    /\ Val(prog).done
    /\ prog' = Some([Val(prog) EXCEPT !.worker = "done"])
    /\ UNCHANGED outsideProg

\* Program.Stop is called
ProgStop(g) ==
    /\ IsSome(prog)
    /\ Val(prog).at[g] = 0
    /\ ~Val(prog).inStart[g]
    /\ Val(prog).begun < MaxStops
    /\ prog' = Some([Val(prog) EXCEPT !.at[g] = 1, !.begun = @ + 1])
    /\ UNCHANGED outsideProg

\* goroutine g is in Stop, at the step named
StopAt(g, step) ==
    /\ IsSome(prog)
    /\ Val(prog).at[g] \in 1..Len(StopSteps)
    /\ StopSteps[Val(prog).at[g]] = step

\* Stop: p.cancel()
StopCancel(g) ==
    /\ StopAt(g, "cancel")
    /\ prog' = Some([Val(prog) EXCEPT !.done = TRUE, !.at[g] = @ + 1])
    /\ UNCHANGED outsideProg

\* Stop: if p.onStop != nil { p.onStop() }; an error is logged only
StopOnStop(g) ==
    /\ StopAt(g, "onStop")
    /\ prog' = Some([Val(prog) EXCEPT
                         !.onStops = IF Val(prog).onStop = "nil" THEN @ ELSE @ + 1,
                         !.at[g] = @ + 1])
    /\ UNCHANGED outsideProg

\* Stop: time.Sleep(1 * time.Second); return nil
StopSleep(g) ==
    /\ StopAt(g, "sleep")
    /\ prog' = Some([Val(prog) EXCEPT !.returned = @ + 1, !.at[g] = 0])
    /\ UNCHANGED outsideProg

ProgNext ==
    \/ \E onStart \in {"nil", "ok", "err", "waits"}, onStop \in {"nil", "ok", "err"} :
           ProgNew(onStart, onStop)
    \/ \E g \in Goroutines : ProgStart(g)
    \/ \E g \in Goroutines : StartReturn(g)
    \/ WorkerInvoke
    \/ WorkerReturns
    \/ WorkerSeesDone
    \/ \E g \in Goroutines : ProgStop(g)
    \/ \E g \in Goroutines : StopCancel(g)
    \/ \E g \in Goroutines : StopOnStop(g)
    \/ \E g \in Goroutines : StopSleep(g)

\* a Program that is started and stopped, by the service manager and by the
\* application
SpecProgram == ConfigInit /\ [][ProgNext]_vars

\* the same, where a goroutine that can run does run in the end: the one
\* that Start spawned, and the one that is about to return from Start
SpecProgramLive ==
    /\ ConfigInit
    /\ [][ProgNext]_vars
    /\ WF_vars(WorkerInvoke)
    /\ \A g \in Goroutines : WF_vars(StartReturn(g))

----------------------------------------------------------------------------
(* The HTTP server (package server).  srv holds: config, what server.New was
   given; ln, the listener ("none", "open", "closed"); conns, the
   connections on which a request is being read, handled or answered;
   helper, the goroutine that StartWithContext starts ("none", "spawned",
   "serving", "send", "done") and helperErr, what its s.Start() returned;
   errChan, the channel between the two; ctxDone, whether the context given
   to StartWithContext is cancelled; swc, where StartWithContext is ("idle",
   "select", "shutdown", "returned"); via, the case of the select that was
   taken; ret, what StartWithContext returned.
   Of the fiber library the model keeps what its documentation says:
   Listen serves until the listener is closed; Shutdown closes the listener
   and waits, without a limit, until no connection is active;
   ShutdownWithContext gives up with the context's error when the context
   ends first.  A connection on which nothing arrives is ended by the
   server only when ReadTimeout is set. *)

MaxConns == 2

\* the configurations server.New is given: DefaultConfig(), and what
\* NewApplication passes, &server.Config{Port: cfg.Port}; ReadTimeout in
\* seconds
ServerConfigs == { [Port |-> DefaultPort, ReadTimeout |-> 30],
                   [Port |-> DefaultPort, ReadTimeout |-> 0] }

outsideSrv == <<cipherVars, storeVars, idVars, dataDir, cfgVars, forged, lateVars, app, resp>>

\* response codes of package api
CodeSuccess == 1
CodeDataRetrieved == 10
CodeDataCreated == 11
CodeSyncSuccess == 20
CodeServiceStarted == 30
CodeServiceStopped == 31
CodeServiceRestarted == 32
CodeErrorBadRequest == -10
CodeErrorUnauthorized == -11
CodeErrorForbidden == -12
CodeErrorNotFound == -13
CodeErrorInternal == -99

\* HTTP status codes (fiber.Status...)
StatusOK == 200
StatusBadRequest == 400
StatusUnauthorized == 401
StatusForbidden == 403
StatusNotFound == 404
StatusMethodNotAllowed == 405
StatusRequestEntityTooLarge == 413
StatusInternalServerError == 500

\* api.NewSuccessResponse, api.NewErrorResponse (Result and Meta left out)
NewSuccessResponse(code, message) == [OK |-> TRUE, Code |-> code, Message |-> message]
NewErrorResponse(code, message) == [OK |-> FALSE, Code |-> code, Message |-> message]

\* an error of the framework, *fiber.Error
FiberError(code, message) == [fiber |-> TRUE, Code |-> code, Message |-> message]

\* what c.Status(code).JSON(body) writes
Written(status, body) ==
    [status |-> status, OK |-> body.OK, Code |-> body.Code, Message |-> body.Message]

customErrorHandler_StatusAsCode(err) ==
    LET code == IF err.fiber THEN err.Code ELSE StatusInternalServerError
    IN  Written(code, NewErrorResponse(code, err.Message))

\* customErrorHandler
customErrorHandler(err) ==
    LET code == IF err.fiber THEN err.Code ELSE StatusInternalServerError
        message == err.Message
        appCode == CASE code = StatusBadRequest -> CodeErrorBadRequest
                     [] code = StatusUnauthorized -> CodeErrorUnauthorized
                     [] code = StatusForbidden -> CodeErrorForbidden
                     [] code = StatusNotFound -> CodeErrorNotFound
                     [] OTHER -> CodeErrorInternal
    IN  Written(code, NewErrorResponse(appCode, message))

\* the routes of setupRoutes, and their handlers
Routes ==
    { <<"GET", "/health">>, <<"GET", "/status">>, <<"GET", "/config">>,
      <<"POST", "/data">>, <<"POST", "/sync">>, <<"POST", "/service/start">>,
      <<"POST", "/service/stop">>, <<"POST", "/service/restart">> }

Handler(route) ==
    CASE route = <<"GET", "/health">> ->
           NewSuccessResponse(CodeSuccess, "Service is healthy")
      [] route = <<"GET", "/status">> ->
           NewSuccessResponse(CodeSuccess, "Status retrieved successfully")
      [] route = <<"GET", "/config">> ->
           NewSuccessResponse(CodeDataRetrieved, "Configuration retrieved successfully")
      [] route = <<"POST", "/data">> ->
           NewSuccessResponse(CodeDataCreated, "Data processed successfully")
      [] route = <<"POST", "/sync">> ->
           NewSuccessResponse(CodeSyncSuccess, "Sync completed successfully")
      [] route = <<"POST", "/service/start">> ->
           NewSuccessResponse(CodeServiceStarted, "Service started successfully")
      [] route = <<"POST", "/service/stop">> ->
           NewSuccessResponse(CodeServiceStopped, "Service stopped successfully")
      [] route = <<"POST", "/service/restart">> ->
           NewSuccessResponse(CodeServiceRestarted, "Service restarted successfully")

\* the requests clients send: every route, a path that is no route, a
\* route under another method, and requests the framework refuses before
\* any handler runs (fault: "none", "malformed", "tooLarge")
Requests ==
    { [method |-> r[1], path |-> r[2], fault |-> f] :
          r \in Routes \cup { <<"GET", "/nonexistent">>, <<"GET", "/data">> },
          f \in {"none"} }
    \cup { [method |-> "POST", path |-> "/data", fault |-> f] : f \in {"malformed", "tooLarge"} }

\* the framework with this program's routes and error handler: the answer
\* to one request
Respond(req) ==
    IF req.fault = "malformed"
    THEN customErrorHandler(FiberError(StatusBadRequest, "Bad Request"))
    ELSE IF req.fault = "tooLarge"
    THEN customErrorHandler(FiberError(StatusRequestEntityTooLarge, "Request Entity Too Large"))
    ELSE IF <<req.method, req.path>> \in Routes
    THEN Written(StatusOK, Handler(<<req.method, req.path>>))
    ELSE IF \E r \in Routes : r[2] = req.path
    THEN customErrorHandler(FiberError(StatusMethodNotAllowed, "Method Not Allowed"))
    ELSE customErrorHandler(FiberError(StatusNotFound, "Cannot GET /nonexistent"))

\* server.New(cfg): the Server it returns
server_New(cfg) ==
    [config |-> cfg, ln |-> "none", conns |-> 0,
     helper |-> "none", helperErr |-> Nil, errChan |-> None,
     ctxDone |-> FALSE, swc |-> "idle", via |-> "none", ret |-> None]

ServerNew(cfg) ==
    /\ srv = None
    /\ srv' = Some(server_New(cfg))
    /\ UNCHANGED outsideSrv

\* StartWithContext: make(chan error, 1); go func() { errChan <- s.Start() }()
SwcCall ==
    /\ IsSome(srv)
    /\ Val(srv).swc = "idle"
    /\ prog = None
    /\ srv' = Some([Val(srv) EXCEPT !.swc = "select", !.helper = "spawned"])
    /\ UNCHANGED outsideSrv

\* whoever holds the cancel function of the context calls it
CtxCancel ==
    /\ IsSome(srv)
    /\ ~Val(srv).ctxDone
    /\ prog = None
    /\ srv' = Some([Val(srv) EXCEPT !.ctxDone = TRUE])
    /\ UNCHANGED outsideSrv

\* the helper: s.Start(), that is s.app.Listen(addr).  It fails (the port
\* is taken), or it serves; on a server already shut down it returns
HelperListen(ok) ==
    /\ IsSome(srv)
    /\ Val(srv).helper = "spawned"
    /\ srv' = Some(IF ~ok
                   THEN [Val(srv) EXCEPT !.helper = "send",
                            !.helperErr = Err("listen: address already in use")]
                   ELSE IF Val(srv).ln = "closed"
                   THEN [Val(srv) EXCEPT !.helper = "send", !.helperErr = Nil]
                   ELSE [Val(srv) EXCEPT !.helper = "serving", !.ln = "open"])
    /\ UNCHANGED outsideSrv

\* Listen returns nil once the listener is closed
HelperServeEnds ==
    /\ IsSome(srv)
    /\ Val(srv).helper = "serving"
    /\ Val(srv).ln = "closed"
    /\ srv' = Some([Val(srv) EXCEPT !.helper = "send", !.helperErr = Nil])
    /\ UNCHANGED outsideSrv

\* a send on errChan, made by make(chan error, 1), can go ahead: the one
\* place of its buffer is free
SendCanProceed(s) == s.errChan = None

\* the helper: errChan <- (what s.Start() returned)
HelperSend ==
    /\ IsSome(srv)
    /\ Val(srv).helper = "send"
    /\ SendCanProceed(Val(srv))
    /\ srv' = Some([Val(srv) EXCEPT !.helper = "done",
                                    !.errChan = Some(Val(srv).helperErr)])
    /\ UNCHANGED outsideSrv

\* Shutdown begins: the listener is closed
CloseListener(s) == [s EXCEPT !.ln = "closed"]

\* select, case <-ctx.Done(): return s.Shutdown()
SwcSelectDone ==
    /\ IsSome(srv)
    /\ Val(srv).swc = "select"
    /\ Val(srv).ctxDone
    /\ srv' = Some([CloseListener(Val(srv)) EXCEPT !.swc = "shutdown", !.via = "ctx"])
    /\ UNCHANGED outsideSrv

\* select, case err := <-errChan: return err
SwcSelectErr ==
    /\ IsSome(srv)
    /\ Val(srv).swc = "select"
    /\ IsSome(Val(srv).errChan)
    /\ srv' = Some([Val(srv) EXCEPT !.swc = "returned", !.via = "err",
                                    !.ret = Some(Val(Val(srv).errChan)),
                                    !.errChan = None])
    /\ UNCHANGED outsideSrv

\* s.Shutdown() returns: no connection is active any more
SwcShutdownReturns ==
    /\ IsSome(srv)
    /\ Val(srv).swc = "shutdown"
    /\ Val(srv).conns = 0
    /\ srv' = Some([Val(srv) EXCEPT !.swc = "returned", !.ret = Some(Nil)])
    /\ UNCHANGED outsideSrv

\* a client connects and begins a request
ConnOpen ==
    /\ IsSome(srv)
    /\ Val(srv).ln = "open"
    /\ Val(srv).conns < MaxConns
    /\ srv' = Some([Val(srv) EXCEPT !.conns = @ + 1])
    /\ UNCHANGED outsideSrv

\* the server answers the request that arrived on an active connection
Serve(req) ==
    /\ IsSome(srv)
    /\ Val(srv).conns > 0
    /\ resp' = Some([req |-> req, res |-> Respond(req)])
    /\ UNCHANGED <<srv, app>>
    /\ UNCHANGED <<cipherVars, storeVars, idVars, dataDir, cfgVars, forged, lateVars>>

\* a client has sent its request and read the answer: the connection is
\* idle or gone
ConnDone ==
    /\ IsSome(srv)
    /\ Val(srv).conns > 0
    /\ srv' = Some([Val(srv) EXCEPT !.conns = @ - 1])
    /\ UNCHANGED <<app, resp>>
    /\ UNCHANGED <<cipherVars, storeVars, idVars, dataDir, cfgVars, forged, lateVars>>

\* the server ends a connection on which nothing arrived for ReadTimeout
ConnTimeout ==
    /\ IsSome(srv)
    /\ Val(srv).conns > 0
    /\ Val(srv).config.ReadTimeout > 0
    /\ srv' = Some([Val(srv) EXCEPT !.conns = @ - 1])
    /\ UNCHANGED outsideSrv

ServerNext ==
    \/ \E cfg \in ServerConfigs : ServerNew(cfg)
    \/ SwcCall
    \/ CtxCancel
    \/ \E ok \in BOOLEAN : HelperListen(ok)
    \/ HelperServeEnds
    \/ HelperSend
    \/ SwcSelectDone
    \/ SwcSelectErr
    \/ SwcShutdownReturns
    \/ ConnOpen
    \/ \E req \in Requests : Serve(req)
    \/ ConnDone
    \/ ConnTimeout

\* a Server started with StartWithContext, its clients, and the owner of
\* the context; what the server's goroutines can do they do in the end,
\* what the clients do is up to them
SpecServer ==
    /\ ConfigInit
    /\ [][ServerNext]_vars
    /\ WF_vars(\E ok \in BOOLEAN : HelperListen(ok))
    /\ WF_vars(HelperServeEnds)
    /\ WF_vars(HelperSend)
    /\ WF_vars(SwcSelectDone)
    /\ WF_vars(SwcSelectErr)
    /\ WF_vars(SwcShutdownReturns)
    /\ WF_vars(ConnTimeout)

----------------------------------------------------------------------------
(* The application (package main).  app holds: run, the number of the
   process; at, where its main goroutine is: in NewApplication ("machineID",
   "manager", "load", "key", "db", "server", "svc"), after it ("built" with an
   Application, "failed" with nil and app.err), in the service ("running",
   then "stopping" once Program.Stop has cancelled the context), in
   OnServiceStop ("shutdown", "closeDB", "stopped"); the fields of the
   Application that are set; serverKey and port, the locals of
   NewApplication; shutdownErr, what ShutdownWithTimeout returned;
   connsAtClose, the connections that were active when db.Close() ran.
   What outlives a process: the machine's signals and the persisted machine
   ID, the config file, the data directory with the settings table. *)

MaxRuns == 2

\* the machine ID persisted on the machine by an earlier installation:
\* "zz\n".  A machine without it gives no signal here, so that GetMachineID
\* fails; how an ID is derived from signals is followed under SpecMachineID
PersistedMachineID == <<122, 122, 10>>

\* what rand.Reader gives GenerateServerKey in a run
AppRandOutcomes == { [ok |-> TRUE, seed |-> 1], [ok |-> TRUE, seed |-> 2],
                     [ok |-> FALSE, seed |-> 0] }

\* a config file found at startup that this program did not write: one byte
ForeignConfigFile == <<120>>

\* a config file sealed for machine ID "m1" that holds "x", which is no JSON
SealedNoJSON ==
    ConfigEncryption_Encrypt(Val(NewConfigEncryption(<<109, 49>>).inst), <<120>>,
                             [ok |-> TRUE, seed |-> 3]).text

\* the request the clients of the application send
AppRequests == { [method |-> "GET", path |-> "/health", fault |-> "none"] }

\* NewApplication that logs the error of a step and goes on to the HTTP
\* server
AppFails_GoesOn(err) == [app EXCEPT !.at = "server", !.err = err]

\* NewApplication returns nil and the error
AppFails(err) == [app EXCEPT !.at = "failed", !.err = err]

\* a process starts: main calls NewApplication
AppRun ==
    /\ app.at \in {"none", "failed", "stopped"}
    /\ app.run < MaxRuns
    /\ pc[1].op = "idle"
    /\ app' = [NoApp EXCEPT !.run = app.run + 1, !.at = "machineID"]
    /\ cachedMachineID' = <<>>
    /\ mgr' = None
    /\ cfgs' = <<>>
    /\ db' = None
    /\ srv' = None
    /\ UNCHANGED <<machineIDMutex, registry, host, idpc, idret, idlog>>
    /\ UNCHANGED <<mmu, cfgFile, cpc, cret>>
    /\ UNCHANGED <<table, tx, mu, pc, ret, plain, now>>
    /\ UNCHANGED <<cipherVars, dataDir, forged, lateVars, resp>>

\* before a run somebody else leaves a file where the config file is looked
\* for
PlaceConfigFile(text) ==
    /\ app.at = "none"
    /\ cfgFile.target = None
    /\ \A g \in Goroutines : cpc[g].op = "idle"
    /\ cfgFile' = [cfgFile EXCEPT !.exists = TRUE, !.target = Some(text)]
    /\ UNCHANGED <<mgr, cfgs, mmu, cpc, cret>>
    /\ UNCHANGED outsideCfg

LoadNext ==
    \/ \E g \in Owners, m \in MachineIDs : MNew(g, m)
    \/ \E text \in { ForeignConfigFile, SealedNoJSON } : PlaceConfigFile(text)
    \/ \E g \in Owners, c \in CallerConfigs : NewConfig(g, c)
    \/ \E g \in Owners, a \in 1..MaxCfgs : CallSave(g, a)
    \/ \E g \in Owners : CallLoad(g)
    \/ \E g \in Owners : MgrLock(g)
    \/ \E g \in Owners : DoLoad(g)
    \/ \E g \in Owners : SavePrepare(g)
    \/ \E g \in Owners : SaveWriteOpen(g)
    \/ \E g \in Owners : SaveWriteData(g)
    \/ \E g \in Owners : SaveRename(g)
    \/ \E g \in Owners : SaveRemove(g)
    \/ Crash

\* a Manager that loads and saves where the config file may be missing, its
\* own, sealed for another machine, or not written by this program at all
SpecLoad == ConfigInit /\ [][LoadNext]_vars

\* Manager.Get under m.mu.RLock(): an error when nothing is loaded, else a
\* copy of *m.config at an address of its own
DoGet(g) ==
    /\ IsSome(mgr)
    /\ cpc[g].op = "idle"
    /\ mmu.writer = 0
    /\ IF Val(mgr).config = 0
       THEN /\ cret' = [g |-> g, op |-> "Get",
                        err |-> Err("configuration not loaded"), cfg |-> 0]
            /\ UNCHANGED cfgs
       ELSE /\ Room
            /\ cfgs' = Append(cfgs, cfgs[Val(mgr).config])
            /\ cret' = [g |-> g, op |-> "Get", err |-> Nil, cfg |-> Len(cfgs) + 1]
    /\ UNCHANGED <<mgr, mmu, cfgFile, cpc>>
    /\ UNCHANGED outsideCfg

\* a caller, outside every call of the Manager, sets the Port of a Config it
\* has a pointer to (one it made, one that Load or Get returned) to 7070
CallerWritesConfig(g, a) ==
    /\ cpc[g].op = "idle"
    /\ a \in 1..Len(cfgs)
    /\ cfgs[a].Port # 7070
    /\ cfgs' = [cfgs EXCEPT ![a].Port = 7070]
    /\ UNCHANGED <<mgr, mmu, cfgFile, cpc, cret>>
    /\ UNCHANGED outsideCfg

\* "m1"
OneMachineID == { <<109, 49>> }

AliasNext ==
    \/ \E g \in Owners, id \in OneMachineID : MNew(g, id)
    \/ \E g \in Owners, c \in CallerConfigs : NewConfig(g, c)
    \/ \E g \in Owners, a \in 1..MaxCfgs : CallSave(g, a)
    \/ \E g \in Owners : CallLoad(g)
    \/ \E g \in Owners : MgrLock(g)
    \/ \E g \in Owners : DoLoad(g)
    \/ \E g \in Owners : SavePrepare(g)
    \/ \E g \in Owners : SaveWriteOpen(g)
    \/ \E g \in Owners : SaveWriteData(g)
    \/ \E g \in Owners : SaveRename(g)
    \/ \E g \in Owners : SaveRemove(g)
    \/ \E g \in Owners : DoGet(g)
    \/ \E g \in Owners, a \in 1..MaxCfgs : CallerWritesConfig(g, a)

\* a Manager and a caller that keeps the pointers it gave and got, and
\* writes through them
SpecAlias == ConfigInit /\ [][AliasNext]_vars

\* before the first run the machine ID file is laid down
PlaceMachineID ==
    /\ app.at = "none"
    /\ registry.content = None
    /\ registry' = [registry EXCEPT !.content = Some(PersistedMachineID)]
    /\ UNCHANGED <<cachedMachineID, machineIDMutex, host, idpc, idret, idlog>>
    /\ UNCHANGED <<cipherVars, storeVars, dataDir, cfgVars, forged, lateVars, srvVars>>

\* NewApplication: security.GetMachineID()
AppGetMachineID ==
    /\ app.at = "machineID"
    /\ \E saveOk \in BOOLEAN :
         \E r \in { GetMachineID_Locked(cachedMachineID, registry, host, saveOk) } :
           /\ cachedMachineID' = r.cache
           /\ registry' = r.reg
           /\ app' = IF r.err # Nil
                     THEN AppFails(Wrap("failed to get machine ID", r.err))
                     ELSE [app EXCEPT !.at = "manager", !.machineID = r.val]
    /\ UNCHANGED <<machineIDMutex, host, idpc, idret, idlog>>
    /\ UNCHANGED <<cipherVars, storeVars, dataDir, cfgVars, forged, lateVars, srv, resp>>

\* NewApplication: config.NewManager(machineID)
AppNewManager ==
    /\ app.at = "manager"
    /\ \E r \in { NewManager(app.machineID) } :
           /\ mgr' = r.m
           /\ app' = IF r.err # Nil
                     THEN AppFails(Wrap("failed to create config manager", r.err))
                     ELSE [app EXCEPT !.at = "load", !.config = TRUE]
    /\ UNCHANGED <<cfgs, mmu, cfgFile, cpc, cret>>
    /\ UNCHANGED <<cipherVars, storeVars, idVars, dataDir, forged, lateVars, srv, resp>>

\* NewApplication: configMgr.Load()
AppLoad ==
    /\ app.at = "load"
    /\ \E readOk \in BOOLEAN :
         \E r \in { Load(Val(mgr), cfgFile, readOk) } :
           IF r.err # Nil
           THEN /\ app' = AppFails(Wrap("failed to load config", r.err))
                /\ UNCHANGED <<mgr, cfgs>>
           ELSE /\ cfgs' = Append(cfgs, Val(r.cfg))
                /\ mgr' = Some([Val(mgr) EXCEPT !.config = Len(cfgs) + 1])
                /\ app' = [app EXCEPT !.at = "key", !.port = Val(r.cfg).Port]
    /\ UNCHANGED <<mmu, cfgFile, cpc, cret>>
    /\ UNCHANGED <<cipherVars, storeVars, idVars, dataDir, forged, lateVars, srv, resp>>

\* NewApplication: security.GenerateServerKey()
AppGenerateServerKey ==
    /\ app.at = "key"
    /\ \E rnd \in AppRandOutcomes :
         \E r \in { GenerateServerKey(rnd) } :
           app' = IF r.err # Nil
                  THEN AppFails(Wrap("failed to generate server key", r.err))
                  ELSE [app EXCEPT !.at = "db", !.serverKey = r.key]
    /\ UNCHANGED <<cipherVars, storeVars, idVars, dataDir, cfgVars, forged, lateVars, srv, resp>>

\* NewApplication: database.New(&database.Config{ServerKey: serverKey})
AppDatabaseNew ==
    /\ app.at = "db"
    /\ \E mkdirOk \in BOOLEAN :
         \E r \in { New(app.serverKey, dataDir, mkdirOk) } :
           /\ db' = r.db
           /\ dataDir' = r.dir
           /\ app' = IF r.err # Nil
                     THEN AppFails(Wrap("failed to initialize database", r.err))
                     ELSE [app EXCEPT !.at = "server", !.db = TRUE]
    /\ UNCHANGED <<table, tx, mu, pc, ret, plain, now>>
    /\ UNCHANGED <<cipherVars, idVars, cfgVars, forged, lateVars, srv, resp>>

\* NewApplication: server.New(&server.Config{Port: cfg.Port})
AppServerNew ==
    /\ app.at = "server"
    /\ srv' = Some(server_New([Port |-> app.port, ReadTimeout |-> 0]))
    /\ app' = [app EXCEPT !.at = "svc", !.httpServer = TRUE]
    /\ UNCHANGED <<cipherVars, storeVars, idVars, dataDir, cfgVars, forged, lateVars, resp>>

\* NewApplication: service.NewManager(...), and the return
AppNewServiceManager(ok) ==
    /\ app.at = "svc"
    /\ app' = IF ok
              THEN [app EXCEPT !.at = "built", !.serviceManager = TRUE]
              ELSE AppFails(Wrap("failed to create service manager",
                                 Err("service: not supported")))
    /\ UNCHANGED <<cipherVars, storeVars, idVars, dataDir, cfgVars, forged, lateVars, srv, resp>>

\* OnServiceStart: go app.httpServer.StartWithContext(ctx), then <-ctx.Done()
AppOnServiceStart ==
    /\ app.at = "built"
    /\ srv' = Some([Val(srv) EXCEPT !.swc = "select", !.helper = "spawned"])
    /\ app' = [app EXCEPT !.at = "running"]
    /\ UNCHANGED <<cipherVars, storeVars, idVars, dataDir, cfgVars, forged, lateVars, resp>>

\* Program.Stop: p.cancel(); OnServiceStart returns, OnServiceStop is next
AppStopCancel ==
    /\ app.at = "running"
    /\ pc[1].op = "idle"
    /\ srv' = Some([Val(srv) EXCEPT !.ctxDone = TRUE])
    /\ app' = [app EXCEPT !.at = "stopping"]
    /\ UNCHANGED <<cipherVars, storeVars, idVars, dataDir, cfgVars, forged, lateVars, resp>>

\* OnServiceStop: app.httpServer.ShutdownWithTimeout(5 s) begins
AppShutdownBegins ==
    /\ app.at = "stopping"
    /\ srv' = Some(CloseListener(Val(srv)))
    /\ app' = [app EXCEPT !.at = "shutdown"]
    /\ UNCHANGED <<cipherVars, storeVars, idVars, dataDir, cfgVars, forged, lateVars, resp>>

\* ShutdownWithTimeout returns: nil when no connection is active, the error
\* of its context when the five seconds are over first; OnServiceStop logs
\* the error and goes on
ShutdownWithTimeout(s) ==
    IF s.conns = 0 THEN Nil ELSE Err("context deadline exceeded")

AppShutdownReturns ==
    /\ app.at = "shutdown"
    /\ \E err \in { ShutdownWithTimeout(Val(srv)) } :
           app' = [app EXCEPT !.at = "closeDB", !.shutdownErr = err]
    /\ UNCHANGED <<cipherVars, storeVars, idVars, dataDir, cfgVars, forged, lateVars, srv, resp>>

\* OnServiceStop: app.db.Close(), which takes db.mu
AppCloseDB ==
    /\ app.at = "closeDB"
    /\ mu.writer = 0
    /\ mu.readers = {}
    /\ db' = None
    /\ app' = [app EXCEPT !.at = "stopped", !.db = FALSE,
                          !.connsAtClose = Val(srv).conns]
    /\ UNCHANGED <<table, tx, mu, pc, ret, plain, now>>
    /\ UNCHANGED <<cipherVars, idVars, dataDir, cfgVars, forged, lateVars, srv, resp>>

\* the Application exists and its service was not told to stop: its parts
\* may call the store
AppUsesStore == app.at \in {"built", "running"}

AppNext ==
    \/ AppRun
    \/ PlaceConfigFile(ForeignConfigFile)
    \/ PlaceMachineID
    \/ AppGetMachineID
    \/ AppNewManager
    \/ AppLoad
    \/ AppGenerateServerKey
    \/ AppDatabaseNew
    \/ AppServerNew
    \/ \E ok \in BOOLEAN : AppNewServiceManager(ok)
    \/ AppOnServiceStart
    \/ AppStopCancel
    \/ AppShutdownBegins
    \/ AppShutdownReturns
    \/ AppCloseDB
    \/ \E ok \in BOOLEAN : HelperListen(ok)
    \/ HelperServeEnds
    \/ HelperSend
    \/ SwcSelectDone
    \/ SwcSelectErr
    \/ SwcShutdownReturns
    \/ ConnOpen
    \/ \E req \in AppRequests : Serve(req)
    \/ ConnDone
    \/ AppUsesStore /\ \E k \in OneKey, v \in OneValue : CallSetSetting(1, k, v)
    \/ DoSetSetting(1)
    \/ AppUsesStore /\ \E k \in OneKey : CallGetSetting(1, k)
    \/ DoGetSetting(1)

\* the application run after run on one machine: built, started as a
\* service, used by its clients and through its store, stopped
SpecApp == ConfigInit /\ [][AppNext]_vars

----------------------------------------------------------------------------
(* Claims about DB.Transaction, under SpecTx *)

ReturnsFromTransaction(g) == Finishes(g, "Transaction") /\ IsSome(tx)

\* the body's writes as the table shows them
WritesVisible(rows, puts, dels) ==
    /\ \A e \in puts : \E r \in rows : r.key = e[1] /\ r.value = e[2]
    /\ \A k \in dels : RowsOf(rows, k) = {}

C5_Original ==
    (ret.op = "Transaction" /\ ret.bodyErr # Nil) => ret.err = ret.bodyErr

\* C5, amended: when the body returns an error e and the transaction is
\* still open, Transaction rolls it back and returns e itself; when the body
\* has already ended the transaction through its handle, the rollback fails
\* and Transaction returns a new error that reports the failed rollback and
\* wraps e, and it leaves the table as the body left it.
C5_ErrorPropagation ==
    [][\A g \in Goroutines :
         (ReturnsFromTransaction(g) /\ ret'.bodyErr # Nil) =>
            /\ tx' = None
            /\ IF Val(tx).state = "open"
               THEN table' = Val(tx).base /\ ret'.err = ret'.bodyErr
               ELSE /\ table' = table
                    /\ ret'.err = RollbackFailed(ErrTxDone, ret'.bodyErr)
                    /\ ret'.err # ret'.bodyErr
                    /\ ErrorsIs(ret'.err, ret'.bodyErr)]_vars

\* a failed body whose transaction was rolled back by Transaction
C5_Witness ==
    /\ ret.op = "Transaction"
    /\ ret.bodyErr = BodyErr
    /\ ret.err = BodyErr
    /\ ~ret.ended
    /\ ret.w > 0

\* C6 as claimed: whenever the body panics, the table after Transaction is
\* the table of before it, no transaction is left open and db.mu is free.
C6_Original ==
    [][\A g \in Goroutines :
         (ReturnsFromTransaction(g) /\ ret'.panicked) =>
            /\ table' = Val(tx).base
            /\ tx' = None
            /\ mu' = [writer |-> 0, readers |-> {}]]_vars

\* C6, amended: whenever the body panics while its transaction is still
\* open, Transaction has rolled it back when the panic leaves it; and
\* whatever the body did, no transaction is left open and db.mu is free, so
\* that the calls of other goroutines can take the lock.
C6_PanicRollsBack ==
    [][\A g \in Goroutines :
         (ReturnsFromTransaction(g) /\ ret'.panicked) =>
            /\ Val(tx).state = "open" => table' = Val(tx).base
            /\ tx' = None
            /\ mu' = [writer |-> 0, readers |-> {}]
            /\ ret'.err = Nil]_vars

\* goroutine 1 panicked in a body that had written, and goroutine 2 holds
\* the lock after it
C6_Witness ==
    /\ ret.op = "Transaction"
    /\ ret.g = 1
    /\ ret.panicked
    /\ ret.w > 0
    /\ ~ret.ended
    /\ mu.writer = 2

----------------------------------------------------------------------------
(* Claims about the settings calls, under SpecKV *)

PlainKeys == { e.key : e \in plain }

\* C7: after SetSetting(k, v1) followed by SetSetting(k, v2), GetSetting(k)
\* returns v2 and the table holds exactly one row for k; and no state has
\* two rows for one key.
C7_Upsert ==
    /\ \A k \in SettingKeys : Cardinality(RowsOf(table, k)) <= 1
    /\ \A e \in plain :
         e.sets = 2 =>
            /\ Cardinality(RowsOf(table, e.key)) = 1
            /\ GetSetting(Val(db), table, e.key) = [out |-> e.value, err |-> Nil]
    /\ ret.op = "GetSetting" =>
         \A e \in plain :
            (e.key = ret.key /\ e.sets = 2) => (ret.err = Nil /\ ret.out = e.value)

\* "v1" was replaced by "v2", and GetSetting returned "v2"
C7_Witness ==
    /\ ret.op = "GetSetting"
    /\ ret.out = <<118, 50>>
    /\ ret.err = Nil
    /\ [key |-> ret.key, value |-> <<118, 50>>, sets |-> 2] \in plain
    /\ Cardinality(RowsOf(table, ret.key)) = 1

\* C8: DeleteSetting on a key that was set removes its row, so that
\* GetSetting fails with the not-found error; DeleteSetting on a key
\* without a row fails with the not-found error; in both cases the rows of
\* the other keys stay as they are.
C8_Deletion ==
    [][\A g \in Goroutines :
         Finishes(g, "DeleteSetting") =>
            /\ { r \in table' : r.key # pc[g].key } = { r \in table : r.key # pc[g].key }
            /\ GetSetting(Val(db), table', pc[g].key) = [out |-> <<>>, err |-> ErrNotFound]
            /\ IF pc[g].key \in PlainKeys
               THEN ret'.err = Nil
               ELSE ret'.err = ErrNotFound /\ table' = table]_vars

\* a delete of a missing key failed while another key had its row
C8_Witness ==
    /\ ret.op = "DeleteSetting"
    /\ ret.err = ErrNotFound
    /\ table # {}
    /\ ret.key \notin PlainKeys

\* C9: after any sequence of SetSetting and DeleteSetting calls the three
\* reads answer as the plain map does: GetAllSettings returns the map,
\* SettingExists is true exactly for its keys, GetSetting returns its value
\* for a key it has and the not-found error for a key it has not.
C9_RefinesPlainMap ==
    /\ \A e1 \in plain, e2 \in plain : e1.key = e2.key => e1 = e2
    /\ GetAllSettings(Val(db), table)
         = [all |-> { <<e.key, e.value>> : e \in plain }, err |-> Nil]
    /\ \A k \in SettingKeys :
         SettingExists(table, k) = [flag |-> k \in PlainKeys, err |-> Nil]
    /\ \A e \in plain :
         GetSetting(Val(db), table, e.key) = [out |-> e.value, err |-> Nil]
    /\ \A k \in SettingKeys \ PlainKeys :
         GetSetting(Val(db), table, k) = [out |-> <<>>, err |-> ErrNotFound]

\* GetAllSettings returned a map of two keys, one of them overwritten
C9_Witness ==
    /\ ret.op = "GetAllSettings"
    /\ Cardinality(ret.all) = 2
    /\ ret.all = { <<e.key, e.value>> : e \in plain }
    /\ \E e \in plain : e.sets = 2

\* C10: for every key k and value v written with SetSetting(k, v), the
\* value column of the row of k is not v, while GetSetting(k) returns v.
C10_AtRestOpacity ==
    \A e \in plain :
        /\ RowsOf(table, e.key) # {}
        /\ \A r \in RowsOf(table, e.key) : r.value # e.value
        /\ GetSetting(Val(db), table, e.key) = [out |-> e.value, err |-> Nil]

\* a row was written and read back
C10_Witness ==
    /\ ret.op = "GetSetting"
    /\ ret.err = Nil
    /\ \E e \in plain :
         /\ e.key = ret.key
         /\ e.value = ret.out
         /\ \E r \in table : r.key = e.key /\ r.value # e.value /\ Len(r.value) > Len(e.value)

----------------------------------------------------------------------------
(* The cipher bench alone *)

SpecCipher == CipherInit /\ [][CipherNext]_vars

----------------------------------------------------------------------------
(* Claims about the two ciphers *)

DecryptedLast == cres.op = "Decrypt" /\ IsSome(env)

InstanceKey(dom, s) ==
    IF dom = "config" THEN Val(ce[s]).key ELSE Val(de[s]).serverKey

\* C1: an envelope sealed in one domain is never opened by a cipher of the
\* other domain: Decrypt returns an error and no plaintext, whatever the
\* machine ID and the server key are, also when the server key has the
\* very bytes of the derived config key.
C1_CrossDomainIsolation ==
    (DecryptedLast /\ cres.dom # Val(env).dom)
        => (cres.err # Nil /\ cres.out = <<>>)

\* both directions attempted, with key bytes shared by the two domains
C1_Witness ==
    /\ DecryptedLast
    /\ cres.dom # Val(env).dom
    /\ InstanceKey(cres.dom, cres.slot) = InstanceKey(Val(env).dom, Val(env).slot)
    /\ Val(env).pt # <<>>

\* C2: in each domain, Decrypt applied by the instance that sealed the
\* envelope succeeds and returns exactly the plaintext that was sealed,
\* the empty plaintext and plaintexts with NUL bytes included.
C2_RoundTrip ==
    (DecryptedLast /\ cres.dom = Val(env).dom /\ cres.slot = Val(env).slot)
        => (cres.err = Nil /\ cres.out = Val(env).pt)

C2_Witness ==
    /\ DecryptedLast
    /\ cres.dom = "database"
    /\ cres.slot = Val(env).slot
    /\ Val(env).dom = "database"
    /\ Val(env).pt = <<104, 0, 255>>
    /\ cres.out = <<104, 0, 255>>

\* C3: within a domain, an instance with a different key (a different
\* machine ID for the config cipher, a different server key for the
\* database cipher) cannot open the envelope: Decrypt returns an error.
C3_KeySensitivity ==
    (/\ DecryptedLast
     /\ cres.dom = Val(env).dom
     /\ IF cres.dom = "config"
        THEN Val(ce[cres.slot]).machineID # Val(ce[Val(env).slot]).machineID
        ELSE Val(de[cres.slot]).serverKey # Val(de[Val(env).slot]).serverKey)
        => (cres.err # Nil /\ cres.out = <<>>)

C3_Witness ==
    /\ DecryptedLast
    /\ cres.dom = "config"
    /\ Val(env).dom = "config"
    /\ Val(ce[cres.slot]).machineID # Val(ce[Val(env).slot]).machineID
    /\ cres.err = Wrap("failed to decrypt", AuthFailed(ConfigAead))

----------------------------------------------------------------------------
(* Claims about what the rows hold *)

\* text opens under the key the store was opened with
OpensUnderStoreKey(text) ==
    DatabaseEncryption_Decrypt(Val(Val(db).encryption), text).err = Nil

\* C11 as claimed: in every reachable state every row of the settings table
\* holds a value sealed under the store's key, whichever operation wrote it,
\* so that GetSetting on an existing key does not fail to decrypt.
C11_RowsSealedUnderStoreKey ==
    \A r \in table :
        /\ OpensUnderStoreKey(r.value)
        /\ GetSetting(Val(db), table, r.key).err = Nil

\* C12: GetSetting(k) returns the not-found error when k has no row; when
\* the row of k holds an envelope that does not open under the key the store
\* is open with, it returns a decryption error and no value; when the
\* envelope opens it succeeds; and it leaves the table as it is.
C12_GetSettingErrors ==
    [][\A g \in Goroutines :
         Finishes(g, "GetSetting") =>
            /\ table' = table
            /\ RowsOf(table, pc[g].key) = {} =>
                   (ret'.err = ErrNotFound /\ ret'.out = <<>>)
            /\ \A r \in RowsOf(table, pc[g].key) :
                   IF OpensUnderStoreKey(r.value)
                   THEN ret'.err = Nil
                   ELSE /\ ret'.err # Nil
                        /\ ret'.err # ErrNotFound
                        /\ Head(ret'.err) = "failed to decrypt setting value"
                        /\ ErrorsIs(ret'.err, AuthFailed(DatabaseAead))
                        /\ ret'.out = <<>>]_vars

\* a value set under the first key was asked for after the store had been
\* opened again with the other key
C12_Witness ==
    /\ IsSome(db)
    /\ Val(Val(db).encryption).serverKey = ForeignKey
    /\ ret.op = "GetSetting"
    /\ ret.key \in PlainKeys
    /\ RowsOf(table, ret.key) # {}
    /\ ret.out = <<>>
    /\ ErrorsIs(ret.err, AuthFailed(DatabaseAead))

\* C13: GetAllSettings returns without error; its result holds exactly the
\* keys whose envelopes open under the key the store is open with, each with
\* the value that was last set for it; the rows that do not open are skipped.
C13_GetAllSkipsUnreadable ==
    [][\A g \in Goroutines :
         Finishes(g, "GetAllSettings") =>
            /\ ret'.err = Nil
            /\ { e[1] : e \in ret'.all }
                 = { r.key : r \in { x \in table : OpensUnderStoreKey(x.value) } }
            /\ \A e \in ret'.all :
                 [key |-> e[1], value |-> e[2], sets |-> 1] \in plain
                    \/ [key |-> e[1], value |-> e[2], sets |-> 2] \in plain
            /\ table' = table]_vars

\* of two rows one was sealed under the key of before the reopening:
\* GetAllSettings returned the other one alone
C13_Witness ==
    /\ ret.op = "GetAllSettings"
    /\ ret.err = Nil
    /\ Cardinality(table) = 2
    /\ Cardinality(ret.all) = 1
    /\ IsSome(db)
    /\ \E r \in table : ~OpensUnderStoreKey(r.value)

----------------------------------------------------------------------------
(* Claims about db.mu *)

MutatingOps == { "SetSetting", "DeleteSetting", "Transaction" }
ReadOps == { "GetSetting", "GetAllSettings", "SettingExists" }

\* the goroutines inside a mutating call, and inside a read
Mutating == { g \in Goroutines : pc[g].op \in MutatingOps }
Reading == { g \in Goroutines : pc[g].op \in ReadOps }

\* C14: at most one goroutine is inside SetSetting, DeleteSetting or
\* Transaction, and none is inside a read meanwhile; a transaction exists
\* only inside the Transaction call that began it, so that no read runs
\* while a transaction has writes that are not committed.
C14_WritersExclusive ==
    /\ Cardinality(Mutating) <= 1
    /\ Mutating # {} => Reading = {}
    /\ Reading # {} => tx = None
    /\ IsSome(tx) => \E g \in Goroutines : Mutating = {g} /\ pc[g].op = "Transaction"
    /\ mu.readers = Reading
    /\ mu.writer # 0 <=> Mutating = {mu.writer}

\* two reads run at the same time, over a row that exists
C14_Witness ==
    /\ Reading = Goroutines
    /\ pc[1].op = "GetSetting"
    /\ pc[2].op = "GetAllSettings"
    /\ table # {}

\* C15: SetSetting calls of different goroutines on one key take effect one
\* after the other: when a call returns nil the table holds exactly one row
\* for the key, GetSetting on it returns the value of that call whole, and
\* the rows of the other keys are as before; a call that fails leaves the
\* table as it was; and what GetSetting returns for a key is always one of
\* the values that were set, never a mixture.
C15_SetSettingOrdered ==
    [][\A g \in Goroutines :
         Finishes(g, "SetSetting") =>
            /\ IF ret'.err = Nil
               THEN /\ Cardinality(RowsOf(table', pc[g].key)) = 1
                    /\ GetSetting(Val(db), table', pc[g].key)
                         = [out |-> pc[g].val, err |-> Nil]
                    /\ { r \in table' : r.key # pc[g].key }
                         = { r \in table : r.key # pc[g].key }
               ELSE table' = table
            /\ \A k \in SettingKeys :
                 RowsOf(table', k) # {} =>
                    GetSetting(Val(db), table', k).out \in SettingValues]_vars

\* goroutine 2 set "v2" on a key that held another value, while goroutine 1
\* is inside a call of its own on that key
C15_Witness ==
    /\ ret.op = "SetSetting"
    /\ ret.g = 2
    /\ ret.val = <<118, 50>>
    /\ ret.err = Nil
    /\ [key |-> ret.key, value |-> <<118, 50>>, sets |-> 2] \in plain
    /\ Cardinality(RowsOf(table, ret.key)) = 1
    /\ pc[1].op = "SetSetting"
    /\ pc[1].key = ret.key
    /\ pc[1].val = <<118, 49>>

----------------------------------------------------------------------------
(* Claims about GetMachineID, under SpecMachineID *)

\* goroutine g returns from the part of GetMachineID under the write lock
LeavesSlowPath(g) == idpc[g] = "locked" /\ idpc'[g] = "idle" /\ ~Restart

\* the persisted machine ID cannot be read, or holds nothing but space
ReadFailsOrEmpty ==
    \/ registry.denied
    \/ registry.content = None
    \/ \A i \in 1..Len(Val(registry.content)) : IsSpace(Val(registry.content)[i])

\* C16: within one process, whatever the interleaving of the callers, a
\* machine ID is derived at most once and saveMachineIDToRegistry is called
\* at most once, the cache slot is written at most once and keeps its value
\* once it has one, and all the calls that succeed return the same value.
C16_InitializedOnce ==
    /\ [](/\ idlog.derived <= 1
          /\ idlog.saves <= 1
          /\ idlog.cacheWrites <= 1
          /\ Cardinality(idlog.returned) <= 1
          /\ (cachedMachineID # << >> => idlog.returned \subseteq {cachedMachineID}))
    /\ [][Restart \/ (cachedMachineID # << >> => cachedMachineID' = cachedMachineID)]_vars

\* both goroutines found the cache empty, one derived and cached the
\* machine ID, and the other got that value from the double check
C16_Witness ==
    /\ idlog.derived = 1
    /\ idlog.cacheWrites = 1
    /\ idret.from = "cache"
    /\ idret.g = 2
    /\ idret.val = cachedMachineID
    /\ idlog.returned = {cachedMachineID}
    /\ idpc[1] = "idle"
    /\ machineIDMutex.writer = 0
    /\ registry.content = None

WellFormed(v) ==
    /\ Len(v) = 2 * Sha256Size
    /\ \A i \in 1..Len(v) : \E j \in 1..Len(HexDigits) : v[i] = HexDigits[j]

\* C18 as claimed: every value that GetMachineID returns with a nil error
\* is a string of exactly 64 lowercase hexadecimal characters, also when it
\* comes from a persisted copy whose content is corrupt.
C18_WellFormedFingerprint ==
    (idret.g # 0 /\ idret.err = Nil) => WellFormed(idret.val)

\* C19: when the persisted machine ID cannot be read or holds nothing, a
\* call that finds the cache empty derives a machine ID (if the host gives
\* any signal) and calls saveMachineIDToRegistry; whether the save succeeds
\* or not, the call returns the derived value with a nil error and the
\* cache holds it; a failed save leaves the persisted copy as it was.
C19_PersistenceFailuresNonFatal ==
    [][\A g \in Goroutines :
         (/\ LeavesSlowPath(g)
          /\ cachedMachineID = << >>
          /\ ReadFailsOrEmpty
          /\ generateMachineID(host).err = Nil) =>
            /\ idret'.err = Nil
            /\ idret'.from = "derived"
            /\ idret'.val = generateMachineID(host).val
            /\ cachedMachineID' = idret'.val
            /\ idlog'.saves = idlog.saves + 1
            /\ \/ registry' = registry
               \/ registry' = [registry EXCEPT !.content = Some(idret'.val)]]_vars

\* the file could not be read, the machine ID was derived, the save failed,
\* and the call returned the derived value, which the cache holds
C19_Witness ==
    /\ idret.from = "derived"
    /\ idret.err = Nil
    /\ WellFormed(idret.val)
    /\ cachedMachineID = idret.val
    /\ idlog.saves = 1
    /\ registry.denied
    /\ registry.content = Some(<<122, 122, 10>>)

\* the signals of a host as the claim counts them: the OS identifier, the
\* CPU descriptor, the MAC address and the hostname, each if the host has it
OsIdentifier(h) ==
    LET etc == IF IsSome(h.etcMachineID) THEN TrimSpace(Val(h.etcMachineID)) ELSE << >>
        dbus == IF IsSome(h.dbusMachineID) THEN TrimSpace(Val(h.dbusMachineID)) ELSE << >>
    IN  IF etc # << >> THEN etc ELSE dbus

AvailableSignals(h) ==
    SelectSeq(<< OsIdentifier(h),
                 getCPUInfo(h).val,
                 getPrimaryMACAddress(h).val,
                 IF IsSome(h.hostname) THEN Val(h.hostname) ELSE << >> >>,
              LAMBDA x : x # << >>)

\* C20 as claimed: a derivation fails exactly when the host has no signal at
\* all; otherwise it hashes the signals the host has, in the order OS
\* identifier, CPU descriptor, MAC address, hostname, and the signals it has
\* not are left out; when it fails GetMachineID returns an error, caches
\* nothing and persists nothing.
C20_DerivationFailsIffNoSignal ==
    [][\A g \in Goroutines :
         (LeavesSlowPath(g) /\ cachedMachineID = << >> /\ ReadFailsOrEmpty) =>
            IF Len(AvailableSignals(host)) = 0
            THEN /\ idret'.err # Nil
                 /\ idret'.val = << >>
                 /\ cachedMachineID' = << >>
                 /\ registry' = registry
            ELSE /\ idret'.err = Nil
                 /\ idret'.val = HexEncode(Sha256Sum(Combine(AvailableSignals(host))))]_vars

----------------------------------------------------------------------------
(* Claims about the constructors and about Decrypt on foreign input *)

\* C21: for every server key whose length is not 32 bytes (empty, 16 and 64
\* bytes among them) NewDatabaseEncryption returns an error that is
\* ErrInvalidKey and no cipher, and database.New returns an error and no
\* store and leaves the data directory as it found it: it neither makes the
\* directory nor creates the database file.
C21_FailClosedOnKeySize ==
    [][/\ \A s \in OneSlot, k \in ServerKeys :
            (CNewDatabaseEncryption(s, k) /\ Len(k) # 32) =>
                /\ cres'.err # Nil
                /\ ErrorsIs(cres'.err, ErrInvalidKey)
                /\ de'[s] = None
       /\ \A g \in Owners, k \in ServerKeys :
            (OpenDB(g, k) /\ Len(k) # 32) =>
                /\ ret'.err # Nil
                /\ db' = None
                /\ dataDir' = dataDir]_vars

\* New refused a key while there was no data directory, and there is none
\* afterwards; NewDatabaseEncryption refused a key as well
C21_Witness ==
    /\ ret.op = "New"
    /\ ret.err = Err("server key must be exactly 32 bytes")
    /\ db = None
    /\ ~dataDir.exists
    /\ cres.op = "NewDatabaseEncryption"
    /\ ErrorsIs(cres.err, ErrInvalidKey)
    /\ de[1] = None

\* C22: NewConfigEncryption and config.NewManager, called with the empty
\* machine ID, return an error and no instance; called with a machine ID
\* that is not empty they return no error and an instance that holds the
\* machine ID (the Manager also holds a config cipher).
C22_EmptyMachineIDRefused ==
    [][/\ \A s \in Slots, m \in MachineIDs :
            CNewConfigEncryption(s, m) =>
                IF m = <<>>
                THEN cres'.err # Nil /\ ce'[s] = None
                ELSE /\ cres'.err = Nil
                     /\ IsSome(ce'[s])
                     /\ Val(ce'[s]).machineID = m
       /\ \A g \in Owners, m \in MachineIDs :
            MNew(g, m) =>
                IF m = <<>>
                THEN cret'.err # Nil /\ mgr' = None
                ELSE /\ cret'.err = Nil
                     /\ IsSome(mgr')
                     /\ Val(mgr').machineID = m
                     /\ IsSome(Val(mgr').encryption)]_vars

\* both constructors have refused the empty machine ID, a Manager was then
\* made from a machine ID that is not empty
C22_Witness ==
    /\ cres.op = "NewConfigEncryption"
    /\ cres.err = Err("machine ID cannot be empty")
    /\ ce[cres.slot] = None
    /\ cret.op = "NewManager"
    /\ cret.err = Nil
    /\ IsSome(mgr)

\* the text handed to Decrypt is an envelope that Encrypt made under the key
\* of the instance that decrypts, and it came back as it was
SealedForIt ==
    /\ forged = "none"
    /\ Val(env).dom = cres.dom
    /\ InstanceKey(cres.dom, cres.slot) = InstanceKey(Val(env).dom, Val(env).slot)

\* C23 as claimed: Decrypt, in both domains, returns an error and no
\* plaintext for every text that is not an envelope made by Encrypt under
\* the same key: text that is not base64, the empty string, fewer decoded
\* bytes than a nonce, a nonce without a valid tag, and an envelope in which
\* something was changed.
C23_DecryptRejectsForeignInput ==
    (DecryptedLast /\ ~SealedForIt) => (cres.err # Nil /\ cres.out = <<>>)

\* the one error of a Decrypt whose Open fails, in the domain dom
AuthError(dom) ==
    Wrap("failed to decrypt",
         AuthFailed(IF dom = "config" THEN ConfigAead ELSE DatabaseAead))

\* the envelope was sealed under the key of the instance that decrypts, and
\* bytes of it were changed or cut off on the way (the nonce is still there)
Tampered ==
    /\ forged \in {"flip", "cut"}
    /\ Val(env).dom = cres.dom
    /\ InstanceKey(cres.dom, cres.slot) = InstanceKey(Val(env).dom, Val(env).slot)

\* the envelope is as it was sealed, under another key of the same domain
WrongKey ==
    /\ forged = "none"
    /\ Val(env).dom = cres.dom
    /\ InstanceKey(cres.dom, cres.slot) # InstanceKey(Val(env).dom, Val(env).slot)

\* the envelope is as it was sealed, by the other domain
OtherDomain ==
    /\ forged = "none"
    /\ Val(env).dom # cres.dom

CompleteEnvelope(text) ==
    \E m \in MachineIDs \ { <<>> } :
        Load(Val(NewManager(m).m), [cfgFile EXCEPT !.target = Some(text)], TRUE).err = Nil

C27_InstanceOwnsKey ==
    /\ \A s \in Slots :
           IsSome(deRef[s]) => KeyInUse(s) = Val(deRef[s]).given
    /\ (cres.op = "Decrypt" /\ IsSome(env) /\ cres.slot = Val(env).slot) =>
           (cres.err = Nil /\ cres.out = Val(env).pt)
    /\ \A s, t \in Slots :
           (s # t /\ IsSome(deRef[s]) /\ IsSome(deRef[t])) =>
               Val(deRef[s]).serverKey # Val(deRef[t]).serverKey

C29_UpdateReturns ==
    \A g \in Owners :
        (cpc[g].op = "Update" /\ IsSome(mgr) /\ Val(mgr).config # 0)
            ~> (cpc[g].op = "idle")

\* C30: while no Stop has been called the context of the Program is not
\* cancelled; whenever Stop calls onStop the context is cancelled already;
\* whenever a Stop returns the context is cancelled.
C30_CancelBeforeOnStop ==
    /\ []((IsSome(prog) /\ Val(prog).begun = 0) => ~Val(prog).done)
    /\ [][(IsSome(prog) /\ Val(prog').onStops > Val(prog).onStops) =>
             Val(prog).done]_vars
    /\ [][(IsSome(prog) /\ Val(prog').returned > Val(prog).returned) =>
             Val(prog').done]_vars

\* a Stop of a running Program called onStop and returned, and the worker
\* saw the cancellation
C30_Witness ==
    /\ IsSome(prog)
    /\ Val(prog).returned > 0
    /\ Val(prog).onStops > 0
    /\ Val(prog).onStart = "waits"
    /\ Val(prog).worker = "done"
    /\ Val(prog).done

\* C31: Start returns nil, and returns although the callback has not
\* returned (or has not even been invoked); a callback that Start spawned
\* is invoked in the end; when the callback returns an error, the error is
\* logged and what Start returned stays nil.
C31_StartDoesNotWait ==
    /\ [](IsSome(prog) => Val(prog).startRet \in {None, Some(Nil)})
    /\ \A g \in Goroutines :
           (IsSome(prog) /\ Val(prog).inStart[g]) ~> (IsSome(prog) /\ ~Val(prog).inStart[g])
    /\ (IsSome(prog) /\ Val(prog).worker = "spawned")
           ~> (IsSome(prog) /\ Val(prog).worker \in {"running", "done"})
    /\ [][(IsSome(prog) /\ Val(prog).worker = "running" /\ Val(prog').worker = "done"
               /\ Val(prog).onStart = "err") =>
             (Val(prog').logged /\ Val(prog').startRet = Val(prog).startRet)]_vars

\* Start has returned nil while the callback waits for a cancellation that
\* has not come, and: the callback failed, Start's nil stands
C31_Witness ==
    /\ IsSome(prog)
    /\ Val(prog).startRet = Some(Nil)
    /\ \/ Val(prog).onStart = "waits" /\ Val(prog).worker = "running" /\ ~Val(prog).done
       \/ Val(prog).onStart = "err" /\ Val(prog).worker = "done" /\ Val(prog).logged

\* C32: once its context is cancelled StartWithContext returns, and it has
\* called Shutdown before it does; when it returns through the other case
\* it returns what Listen returned; the helper goroutine always gets rid of
\* the listen result.
C32_StartWithContextReturns ==
    /\ (IsSome(srv) /\ Val(srv).swc \in {"select", "shutdown"} /\ Val(srv).ctxDone)
           ~> (IsSome(srv) /\ Val(srv).swc = "returned")
    /\ [][(IsSome(srv) /\ Val(srv).swc # "returned" /\ Val(srv').swc = "returned") =>
             \/ Val(srv).swc = "shutdown" /\ Val(srv).ln = "closed"
             \/ Val(srv').via = "err" /\ Val(srv').ret = Some(Val(srv).helperErr)]_vars
    /\ [](IsSome(srv) /\ Val(srv).helper = "send" => SendCanProceed(Val(srv)))
    /\ (IsSome(srv) /\ Val(srv).helper = "send") ~> (IsSome(srv) /\ Val(srv).helper = "done")

----------------------------------------------------------------------------
(* Claims about the application, under SpecApp *)

\* C34: when OnServiceStop has closed the database, the shutdown of the HTTP
\* server had completed, and no connection was still being served at the
\* moment db.Close() ran
C34_DatabaseClosedAfterShutdown ==
    app.at = "stopped" => (app.shutdownErr = Nil /\ app.connsAtClose = 0)


----------------------------------------------------------------------------
(* Claims about Manager.Load, under SpecLoad *)

\* the step in which a Load of goroutine g returns
LoadReturns(g) == cpc[g].at = "load" /\ cret'.op = "Load" /\ cret'.g = g

\* the config file as a Manager can decode it: the text opens under the
\* Manager's key and the bytes inside are a JSON configuration
Decodes(m, text) ==
    LET opened == ConfigEncryption_Decrypt(Val(m.encryption), text)
    IN  opened.err = Nil /\ Unmarshal(opened.pt).err = Nil

\* C35: a Load that finds no config file returns the defaults and no error,
\* and makes no file; a Load that finds a file it cannot read, decrypt or
\* parse returns an error and no Config, and leaves the Manager's current
\* configuration as it was; a Load never changes the files.
C35_LoadMissingOrBroken ==
    [][\A g \in Owners : LoadReturns(g) =>
         /\ cfgFile' = cfgFile
         /\ cfgFile.target = None =>
              /\ cret'.err = Nil
              /\ cret'.cfg # 0
              /\ cfgs'[cret'.cfg] = getDefaultConfig
         /\ (cfgFile.target # None /\ ~Decodes(Val(mgr), Val(cfgFile.target))) =>
              cret'.err # Nil
         /\ cret'.err # Nil =>
              /\ cfgFile.target # None
              /\ cret'.cfg = 0
              /\ mgr' = mgr
              /\ cfgs' = cfgs]_vars

\* a Load failed on a file of somebody else's while the Manager had a
\* current configuration, which it still has
C35_Witness ==
    /\ cret.op = "Load"
    /\ cret.err # Nil
    /\ Head(cret.err) = "failed to decrypt config"
    /\ IsSome(mgr)
    /\ Val(mgr).config # 0
    /\ cfgFile.target = Some(ForeignConfigFile)

\* the step of NewApplication that failed, as the error it returned names it
FailedStep == IF app.at = "failed" /\ app.err # Nil THEN Head(app.err) ELSE "none"

\* the failures of the identity, config and database steps
EarlyFailures ==
    { "failed to get machine ID", "failed to create config manager",
      "failed to load config", "failed to generate server key",
      "failed to initialize database" }

\* C36: NewApplication resolves the machine ID, then loads the config, then
\* constructs the database, then constructs the HTTP server; when one of the
\* first three fails it returns an error and no Application, and the process
\* has no HTTP server, constructed or started.
C36_FailClosedAtStartup ==
    /\ [](app.at = "failed" =>
            /\ app.err # Nil
            /\ ~app.serviceManager
            /\ FailedStep \in EarlyFailures => (srv = None /\ ~app.httpServer))
    /\ [][/\ (app'.config /\ ~app.config) => app.machineID # <<>>
          /\ (app'.db /\ ~app.db) =>
                (app.config /\ IsSome(mgr) /\ Val(mgr).config # 0)
          /\ (srv = None /\ srv' # None) =>
                (app.db /\ IsSome(db) /\ app'.httpServer)
          /\ (IsSome(srv) /\ IsSome(srv') /\ Val(srv).helper = "none"
                /\ Val(srv').helper # "none") => app.at = "built"]_vars

\* a run whose config file could not be decrypted: NewApplication returned
\* the error, and there is neither a database nor an HTTP server
C36_Witness ==
    /\ FailedStep = "failed to load config"
    /\ app.machineID # <<>>
    /\ app.config
    /\ db = None
    /\ srv = None

----------------------------------------------------------------------------
(* Claims about the Manager's current configuration, under SpecAlias *)

\* what a Get would return now: the Config the Manager points at
Current == IF IsSome(mgr) /\ Val(mgr).config # 0
           THEN Some(cfgs[Val(mgr).config]) ELSE None

\* C37: what Get returns changes only in a step of Load, Save or Update; a
\* caller that writes into a Config that Get or Load returned, or that it
\* had passed to Save, does not change it.
C37_OnlyManagerChangesConfig ==
    [][(IsSome(Current) /\ Current' # Current) =>
         \E g \in Owners : cpc[g].op \in {"Load", "Save", "Update"}]_vars

----------------------------------------------------------------------------
(* Claims about the lock around DB.Transaction, under SpecAllCalls *)

\* C38: a goroutine is inside Transaction only with db.mu held for writing,
\* from the step that begins the transaction to the step that commits it or
\* rolls it back and returns; while it is inside, no call of another
\* goroutine starts, acts or returns; and whenever the body returns, with or
\* without an error, Transaction can finish and return at once.
C38_TransactionHoldsLock ==
    /\ [](\A g \in Goroutines :
            pc[g].op = "Transaction" =>
               /\ mu.writer = g
               /\ mu.readers = {}
               /\ IsSome(tx)
               /\ \A e \in {Nil, BodyErr} : ENABLED TxReturn(g, e))
    /\ [][\A g \in Goroutines :
            /\ (pc[g].op = "idle" /\ pc'[g].op = "Transaction") =>
                  (mu.writer = 0 /\ tx = None /\ Val(tx').state = "open")
            /\ pc[g].op = "Transaction" =>
                  /\ \A h \in Goroutines \ {g} : pc[h].op = "idle" /\ pc'[h].op = "idle"
                  /\ ret' # ret => ret'.g = g
                  /\ table' # table => Val(tx).state = "open" /\ table' = Val(tx).view
            /\ Finishes(g, "Transaction") =>
                  (tx' = None /\ mu'.writer = 0)]_vars

\* goroutine 2 is inside a transaction that has written, not yet committed,
\* after a SetSetting of goroutine 1 returned; goroutine 1 is in no call
C38_Witness ==
    /\ pc[2].op = "Transaction"
    /\ pc[2].w > 0
    /\ Val(tx).state = "open"
    /\ Val(tx).view # table
    /\ pc[1].op = "idle"
    /\ ret.g = 1
    /\ ret.op = "SetSetting"

\* C39: a GetSetting of a key that was set, in this run of the application
\* or in an earlier one on the same data directory, returns the value that
\* was set last, and no error.
C39_SettingsSurviveRestart ==
    [][\A e \in plain :
         (Finishes(1, "GetSetting") /\ pc[1].key = e.key) =>
             (ret'.err = Nil /\ ret'.out = e.value)]_vars

============================================================================
